---------------------------- MODULE Spec2Model ----------------------------
(***************************************************************************)
(* A model of the argument-matching core of clap: the Arg / ArgGroup       *)
(* builders (src/src/build/args/arg.rs, src/src/build/arg_group.rs), the   *)
(* Key (src/src/build/args/arg/key.rs), the RawLong conversion             *)
(* (src/src/parse/raw_long.rs) and the matching engine and validator that  *)
(* consume them.  The matching engine and the validator are not part of    *)
(* the source tree; they are modelled from the design document (section    *)
(* 4.1 - 4.3) and from the documentation tests of the builders.            *)
(*                                                                         *)
(* Text is modelled as sequences of one-character strings, so that         *)
(* splitting a token at a byte is computed and not assumed.  An ArgId is   *)
(* the hash of a name; the model identifies an id with its name (the hash  *)
(* is taken to be injective on the names of one application).              *)
(***************************************************************************)
EXTENDS Integers, Sequences, FiniteSets, TLC

VARIABLES
    app,      \* the application under construction: arg name -> Arg
    groups,   \* group name -> ArgGroup
    phase,    \* "build" | "parse" | "done"
    calls,    \* the builder calls applied so far, in order
    input,    \* the tokens handed to the parser so far
    ms,       \* the MatchState of the running parse
    result    \* the outcome of the parse: [kind, ids]

vars == <<app, groups, phase, calls, input, ms, result>>

\* ------------------------------------------------------------------ bounds

MaxCalls == 2
MaxTokens == 3
MaxLongLen == 3

\* ------------------------------------------------------------------ text

None == "none"

RECURSIVE IndexOfFrom(_, _, _)
\* The first position >= i of s that holds byte b, 0 when there is none.
IndexOfFrom(s, b, i) ==
    IF i > Len(s) THEN 0
    ELSE IF s[i] = b THEN i
    ELSE IndexOfFrom(s, b, i + 1)

contains_byte(s, b) == IndexOfFrom(s, b, 1) # 0

\* OsStrExt2::split_at_byte: the part before the first b and the part after it;
\* the whole text and the empty text when b does not occur.
split_at_byte(s, b) ==
    LET i == IndexOfFrom(s, b, 1) IN
    IF i = 0 THEN <<s, <<>>>>
    ELSE <<SubSeq(s, 1, i - 1), SubSeq(s, i + 1, Len(s))>>

RECURSIVE trim_left_matches(_, _)
\* OsStrExt2::trim_left_matches: s without its leading run of byte b.
trim_left_matches(s, b) ==
    IF Len(s) > 0 /\ s[1] = b THEN trim_left_matches(Tail(s), b) ELSE s

RECURSIVE split(_, _)
\* OsStrExt2::split: the pieces of s between occurrences of byte d, in order.
split(s, d) ==
    LET i == IndexOfFrom(s, d, 1) IN
    IF i = 0 THEN <<s>>
    ELSE <<SubSeq(s, 1, i - 1)>> \o split(SubSeq(s, i + 1, Len(s)), d)

starts_with(s, p) == Len(s) >= Len(p) /\ SubSeq(s, 1, Len(p)) = p

\* ------------------------------------------------------- rules (section 3)

\* Condition::new(id): an identity with no expected value (val: <<>> is
\* None, <<v>> is Some(v)).
ConditionNew(id) == [id |-> id, val |-> <<>>]

\* Rule::new().condition(c): one condition, the Any modifier, not Unless.
RuleOne(c) == [unless |-> FALSE, all |-> FALSE, conds |-> <<c>>]

\* Rule::new().conditions(ids.map(Condition::new)) with its two modifiers.
RuleOf(unless, all, ids) ==
    [unless |-> unless, all |-> all,
     conds |-> [i \in 1..Len(ids) |-> ConditionNew(ids[i])]]

\* ------------------------------------------------------------------- Key

KeyNew == [short |-> None, long |-> <<>>, index |-> 0]

Key_has_switch(k) == k.short # None \/ k.long # <<>>

Key_is_positional(k) == k.index # 0 \/ ~Key_has_switch(k)

\* ------------------------------------------------------------------- Arg

ArgNew(id) ==
    [id |-> id,
     key |-> KeyNew,
     settings |-> {},
     value |-> <<>>,
     val_delim |-> None,
     conflicts |-> <<>>,
     overrides |-> <<>>,
     requirements |-> <<>>,
     requires |-> <<>>,
     self_required |-> <<>>,
     r_ifs |-> <<>>,
     max_vals |-> <<>>,
     min_vals |-> <<>>,
     num_vals |-> <<>>,
     val_names |-> <<>>,
     default_val |-> <<>>,
     default_vals_ifs |-> <<>>,
     env |-> <<>>]

is_set(a, s) == s \in a.settings

\* value is None after Arg::new, and no builder assigns it.
Arg_is_flag(a) == a.value = <<>> /\ Key_has_switch(a.key)

Arg_is_option(a) == a.value # <<>> /\ Key_has_switch(a.key)

Arg_is_positional(a) == a.value # <<>> /\ ~Key_has_switch(a.key)

setting(a, s) == [a EXCEPT !.settings = @ \cup {s}]

unset_setting(a, s) == [a EXCEPT !.settings = @ \ {s}]

short(a, s) == [a EXCEPT !.key.short = s]

long(a, l) == [a EXCEPT !.key.long = Append(@, l)]

\* Mutant: the index counted from 0.
index_from_zero(a, idx) == [a EXCEPT !.key.index = idx - 1]

index(a, idx) == [a EXCEPT !.key.index = idx]

\* Mutant: the setting is cleared whatever r is.
required_never(a, r) == unset_setting(a, "Required")

\* Mutant: the two branches exchanged.
required_swapped(a, r) ==
    IF r THEN unset_setting(a, "Required") ELSE setting(a, "Required")

required(a, r) ==
    IF r THEN setting(a, "Required") ELSE unset_setting(a, "Required")

requires(a, other) ==
    [a EXCEPT !.requirements = Append(@, RuleOne(ConditionNew(other)))]

\* One rule with the All modifier over every name.
conflicts_with_all(a, others) ==
    [a EXCEPT !.conflicts = Append(@, RuleOf(FALSE, TRUE, others))]

\* Mutant: only the first of the names is pushed.
requires_all_first_only(a, others) ==
    [a EXCEPT !.requires = Append(@, <<<<>>, others[1]>>)]

\* Each name is pushed as the pair (None, id).
requires_all(a, others) ==
    [a EXCEPT !.requires = @ \o [i \in 1..Len(others) |-> <<<<>>, others[i]>>]]

\* val is not used: the rule pushed is the one of requires(other).
requires_if(a, val, other) ==
    [a EXCEPT !.requirements = Append(@, RuleOne(ConditionNew(other)))]

\* Each (val, other) of ifs is pushed as the pair (Some(val), id).
requires_ifs(a, ifs) ==
    [a EXCEPT !.requires = @ \o [i \in 1..Len(ifs) |-> <<<<ifs[i][1]>>, ifs[i][2]>>]]

required_unless(a, other) ==
    [a EXCEPT !.self_required = Append(@, RuleOf(TRUE, FALSE, <<other>>))]

\* Mutant: the ConditionsModifier of required_unless_one.
required_unless_all_as_one(a, others) ==
    [a EXCEPT !.self_required = Append(@, RuleOf(TRUE, FALSE, others))]

required_unless_all(a, others) ==
    [a EXCEPT !.self_required = Append(@, RuleOf(TRUE, TRUE, others))]

\* Mutant: the ConditionsModifier of required_unless_all.
required_unless_one_as_all(a, others) ==
    [a EXCEPT !.self_required = Append(@, RuleOf(TRUE, TRUE, others))]

required_unless_one(a, others) ==
    [a EXCEPT !.self_required = Append(@, RuleOf(TRUE, FALSE, others))]

\* Mutant: the two branches exchanged.
global_negated(a, g) ==
    IF g THEN unset_setting(a, "Global") ELSE setting(a, "Global")

global(a, g) ==
    IF g THEN setting(a, "Global") ELSE unset_setting(a, "Global")

takes_value(a, tv) ==
    IF tv THEN setting(a, "TakesValue") ELSE unset_setting(a, "TakesValue")

\* Mutant: the setting of the sibling builder is written.
multiple_occurrences_as_values(a, multi) ==
    IF multi THEN setting(a, "MultipleValues")
    ELSE unset_setting(a, "MultipleValues")

multiple_occurrences(a, multi) ==
    IF multi THEN setting(a, "MultipleOccurrences")
    ELSE unset_setting(a, "MultipleOccurrences")

\* Mutant: the setting of the sibling builder is written.
multiple_values_as_occurrences(a, multi) ==
    IF multi THEN setting(a, "MultipleOccurrences")
    ELSE unset_setting(a, "MultipleOccurrences")

multiple_values(a, multi) ==
    IF multi THEN setting(a, "MultipleValues")
    ELSE unset_setting(a, "MultipleValues")

\* Mutant: the rule names the argument itself instead of the other one.
conflicts_with_self(a, other) ==
    [a EXCEPT !.conflicts = Append(@, RuleOne(ConditionNew(a.id)))]

conflicts_with(a, other) ==
    [a EXCEPT !.conflicts = Append(@, RuleOne(ConditionNew(other)))]

\* Mutant: the rule is dropped when it names the argument itself.
overrides_with_not_self(a, other) ==
    IF other = a.id THEN a
    ELSE [a EXCEPT !.overrides = Append(@, RuleOne(ConditionNew(other)))]

\* Mutant: the rule is filed with the conflicts.
overrides_with_as_conflict(a, other) ==
    [a EXCEPT !.conflicts = Append(@, RuleOne(ConditionNew(other)))]

overrides_with(a, other) ==
    [a EXCEPT !.overrides = Append(@, RuleOne(ConditionNew(other)))]

\* Mutant: the pair names the argument itself.
required_if_on_self(a, other, val) ==
    [a EXCEPT !.r_ifs = Append(@, <<a.id, val>>)]

required_if(a, other, val) ==
    [a EXCEPT !.r_ifs = Append(@, <<other, val>>)]

\* Each pair of ifs is pushed in turn.
required_ifs(a, ifs) == [a EXCEPT !.r_ifs = @ \o ifs]

\* Only default_val is set; no setting is touched.
default_value_os(a, val) == [a EXCEPT !.default_val = <<val>>]

default_value(a, val) == default_value_os(a, val)

\* Mutant: the entry is put before the ones already there.
default_value_if_os_first(a, arg, val, default) ==
    [a EXCEPT !.default_vals_ifs = <<<<arg, val, default>>>> \o @]

\* The entry (id, val, default) is inserted at the end; val is an option.
default_value_if_os(a, arg, val, default) ==
    [a EXCEPT !.default_vals_ifs = Append(@, <<arg, val, default>>)]

default_value_if(a, arg, val, default) == default_value_if_os(a, arg, val, default)

RECURSIVE default_value_ifs(_, _)
default_value_ifs(a, ifs) ==
    IF ifs = <<>> THEN a
    ELSE default_value_ifs(default_value_if_os(a, ifs[1][1], ifs[1][2], ifs[1][3]), Tail(ifs))

\* var is what env::var_os(name) returns when the argument is built: <<>>
\* when the variable is not set.  No setting is touched.
env_os(a, name, var) == [a EXCEPT !.env = <<<<name, var>>>>]

env(a, name, var) == env_os(a, name, var)

\* Mutant: one more than qty is stored.
max_values_plus_one(a, qty) == [a EXCEPT !.max_vals = <<qty + 1>>]

\* Only max_vals is set; no setting is touched.
max_values(a, qty) == [a EXCEPT !.max_vals = <<qty>>]

\* Mutant: qty is stored as the maximum.
number_of_values_as_max(a, qty) == [a EXCEPT !.max_vals = <<qty>>]

\* Only num_vals is set; no setting is touched.
number_of_values(a, qty) == [a EXCEPT !.num_vals = <<qty>>]

\* The first character of d becomes the delimiter; no setting is touched.
value_delimiter(a, d) == [a EXCEPT !.val_delim = d[1]]

\* The names are appended after those already declared (VecMap keys
\* len, len + 1, ...); no setting is touched.
value_names(a, names) ==
    [a EXCEPT !.val_names = IF @ = <<>> THEN <<names>> ELSE <<@[1] \o names>>]

\* One name is appended; no setting is touched.
value_name(a, name) ==
    [a EXCEPT !.val_names = IF @ = <<>> THEN <<<<name>>>> ELSE <<Append(@[1], name)>>]

\* UseValueDelimiter and RequireDelimiter are set and ValueDelimiterNotSet is
\* unset on true; on false both are unset. TakesValue is not touched.
require_delimiter(a, d) ==
    IF d
    THEN setting(setting(unset_setting(setting(a, "UseValueDelimiter"),
                                       "ValueDelimiterNotSet"),
                         "UseValueDelimiter"),
                 "RequireDelimiter")
    ELSE unset_setting(unset_setting(unset_setting(a, "UseValueDelimiter"),
                                     "UseValueDelimiter"),
                       "RequireDelimiter")

\* The delimiter defaults to a comma when one of the two delimiter settings
\* is set and none was declared.
set_default_delimiter(a) ==
    IF (is_set(a, "UseValueDelimiter") \/ is_set(a, "RequireDelimiter"))
       /\ a.val_delim = None
    THEN [a EXCEPT !.val_delim = ","]
    ELSE a

\* Mutant: the declared value names leave num_vals alone.
Arg_build_ignores_names(a) == set_default_delimiter(a)

\* Arg::_build: the default delimiter, then the implied settings of a
\* positional or the implied count of an argument with TakesValue set.
Arg_build(a) ==
    LET d == set_default_delimiter(a) IN
    IF Arg_is_positional(d)
    THEN IF \/ d.max_vals # <<>>
            \/ d.min_vals # <<>>
            \/ (d.num_vals # <<>> /\ d.num_vals[1] > 1)
         THEN setting(setting(d, "MultipleValues"), "MultipleOccurrences")
         ELSE d
    ELSE IF is_set(d, "TakesValue")
         THEN IF d.val_names # <<>> /\ Len(d.val_names[1]) > 1
              THEN [d EXCEPT !.num_vals = <<Len(d.val_names[1])>>]
              ELSE d
         ELSE d


\* -------------------------------------------------------------- ArgGroup

ArgGroupNew(id) ==
    [id |-> id, args |-> <<>>, required |-> FALSE,
     requires |-> <<>>, conflicts |-> <<>>, multiple |-> FALSE]

\* ArgGroup::arg: appends the member (the group's own name is refused).
ArgGroup_arg(g, n) == [g EXCEPT !.args = Append(@, n)]

RECURSIVE ArgGroup_args(_, _)
ArgGroup_args(g, ns) ==
    IF ns = <<>> THEN g ELSE ArgGroup_args(ArgGroup_arg(g, Head(ns)), Tail(ns))

\* Mutant: the flag stored negated.
ArgGroup_multiple_negated(g, m) == [g EXCEPT !.multiple = ~m]

ArgGroup_multiple(g, m) == [g EXCEPT !.multiple = m]

\* Mutant: the flag is not stored.
ArgGroup_required_ignored(g, r) == g

ArgGroup_required(g, r) == [g EXCEPT !.required = r]

\* Mutant: the name pushed to the conflicts.
ArgGroup_requires_as_conflicts(g, n) == [g EXCEPT !.conflicts = Append(@, n)]

ArgGroup_requires(g, n) == [g EXCEPT !.requires = Append(@, n)]

RECURSIVE ArgGroup_requires_all(_, _)
ArgGroup_requires_all(g, ns) ==
    IF ns = <<>> THEN g
    ELSE ArgGroup_requires_all(ArgGroup_requires(g, Head(ns)), Tail(ns))

\* Mutant: the name pushed to the requirements.
ArgGroup_conflicts_with_as_requires(g, n) == [g EXCEPT !.requires = Append(@, n)]

ArgGroup_conflicts_with(g, n) == [g EXCEPT !.conflicts = Append(@, n)]

\* ------------------------------------------------------------- tokenizer

\* RawLong::from: split at the first '=' when there is one.  The value is an
\* option: <<>> is None, <<v>> is Some(v).
RawLongFrom(oss) ==
    IF contains_byte(oss, "=")
    THEN LET p == split_at_byte(oss, "=") IN
         [long |-> p[1], value |-> <<trim_left_matches(p[2], "=")>>]
    ELSE [long |-> oss, value |-> <<>>]

RawLong_key(r) == trim_left_matches(r.long, "-")

\* Section 4.1: the kind of a raw token.
Classify(tok) ==
    IF tok = <<"-", "-">> THEN "terminator"
    ELSE IF Len(tok) > 2 /\ starts_with(tok, <<"-", "-">>) THEN "long"
    ELSE IF Len(tok) >= 2 /\ tok[1] = "-" /\ tok[2] # "-" THEN "short"
    ELSE "positional"

\* ------------------------------------------------------------ MatchState

\* The log of occurrences in command-line order, each with the values it
\* received; the option still consuming values; whether the terminator was
\* seen; the index of the next positional; the error that ended the parse.
MatchStateNew ==
    [seen |-> <<>>, pending |-> None, trailing |-> FALSE, pos |-> 1, err |-> None,
     added |-> <<>>, subcommand |-> <<>>]

RECURSIVE CountOf(_, _)
CountOf(log, id) ==
    IF log = <<>> THEN 0
    ELSE (IF log[1].id = id THEN 1 ELSE 0) + CountOf(Tail(log), id)

RECURSIVE ValuesIn(_, _)
ValuesIn(log, id) ==
    IF log = <<>> THEN <<>>
    ELSE (IF log[1].id = id THEN log[1].vals ELSE <<>>) \o ValuesIn(Tail(log), id)

occurrences_of(st, id) == CountOf(st.seen, id)

\* The values from the command line, then the ones a default or the
\* environment gave (added: argument -> values, with no occurrence).
values_of(st, id) ==
    ValuesIn(st.seen, id) \o (IF id \in DOMAIN st.added THEN st.added[id] ELSE <<>>)

is_present(st, id) == occurrences_of(st, id) > 0 \/ id \in DOMAIN st.added

Fail(st, kind) == [st EXCEPT !.err = kind]

\* QueryArgs::find_by_long / find_by_short / find_by_position: the set of
\* arguments of `a` that answer to the key (at most one in a valid App).
find_by_long(a, l) ==
    {x \in DOMAIN a : \E i \in 1..Len(a[x].key.long) : a[x].key.long[i] = l}

find_by_short(a, s) == {x \in DOMAIN a : a[x].key.short = s}

\* Mutant: the position counted from 0.
find_by_position_from_zero(a, p) ==
    {x \in DOMAIN a : Key_is_positional(a[x].key) /\ a[x].key.index = p - 1}

find_by_position(a, p) ==
    {x \in DOMAIN a : Key_is_positional(a[x].key) /\ a[x].key.index = p}

\* Whether arg x names itself in one of its override rules.
OverridesSelf(a, x) ==
    \E i \in 1..Len(a[x].overrides) :
        \E j \in 1..Len(a[x].overrides[i].conds) :
            a[x].overrides[i].conds[j].id = x

\* The values one raw value contributes: split at the delimiter when one is
\* configured.
ValuePieces(arg, v) ==
    IF arg.val_delim # None THEN split(v, arg.val_delim) ELSE <<v>>

\* A switch of x was met: refuse a repeat beyond the occurrence limit,
\* otherwise log a new occurrence.
Occur(a, st, x) ==
    IF /\ occurrences_of(st, x) >= 1
       /\ ~is_set(a[x], "MultipleOccurrences")
       /\ ~OverridesSelf(a, x)
    THEN Fail(st, "UnexpectedMultipleUsage")
    ELSE [st EXCEPT !.seen = Append(@, [id |-> x, vals |-> <<>>])]

\* Adds raw value v to the latest occurrence in the log; more values than
\* the maximum of the argument is an error, and so is more than its exact
\* number when it may occur only once.
AddVal(a, st, v) ==
    LET n == Len(st.seen)
        x == st.seen[n].id
        st1 == [st EXCEPT !.seen[n].vals = @ \o ValuePieces(a[x], v)]
    IN  IF a[x].max_vals # <<>> /\ Len(ValuesIn(st1.seen, x)) > a[x].max_vals[1]
        THEN Fail(st1, "TooManyValues")
        ELSE IF /\ a[x].num_vals # <<>>
                /\ ~is_set(a[x], "MultipleOccurrences")
                /\ Len(ValuesIn(st1.seen, x)) > a[x].num_vals[1]
        THEN Fail(st1, "WrongNumberOfValues")
        ELSE st1

\* The option stops consuming values; it is an error to have received none.
ClosePending(st) ==
    IF st.pending = None THEN st
    ELSE IF st.seen[Len(st.seen)].vals = <<>> THEN Fail(st, "EmptyValue")
    ELSE [st EXCEPT !.pending = None]

\* -------------------------------------------- matching engine (section 4.2)

\* The option that has just received a value keeps consuming only when it
\* takes several values per occurrence, or has a maximum or an exact number
\* to fill.
AfterValue(a, st) ==
    IF /\ st.pending # None
       /\ \/ is_set(a[st.pending], "MultipleValues")
          \/ a[st.pending].max_vals # <<>>
          \/ a[st.pending].num_vals # <<>>
    THEN st
    ELSE [st EXCEPT !.pending = None]

\* A value-taking switch x was matched, with or without an inline value.
TakeInline(a, st, x, inline) ==
    IF ~is_set(a[x], "TakesValue") THEN st
    ELSE IF inline = <<>> THEN [st EXCEPT !.pending = x]
    ELSE AddVal(a, st, inline[1])

\* A long token: key and inline value from RawLong, the argument by its key.
ParseLong(a, st, tok) ==
    LET r == RawLongFrom(tok)
        found == find_by_long(a, RawLong_key(r))
    IN  IF found = {} THEN Fail(st, "UnknownArgument")
        ELSE LET x == CHOOSE y \in found : TRUE
                 st1 == Occur(a, st, x)
             IN  IF st1.err # None THEN st1
                 ELSE TakeInline(a, st1, x, r.value)

RECURSIVE ParseShort(_, _, _)
\* A short token or cluster, given without its hyphen: each byte is a flag
\* until one takes a value, which then owns the remaining bytes.
ParseShort(a, st, bytes) ==
    IF bytes = <<>> THEN st
    ELSE LET found == find_by_short(a, bytes[1]) IN
         IF found = {} THEN Fail(st, "UnknownArgument")
         ELSE LET x == CHOOSE y \in found : TRUE
                  st1 == Occur(a, st, x)
                  rest == trim_left_matches(Tail(bytes), "=")
              IN  IF st1.err # None THEN st1
                  ELSE IF is_set(a[x], "TakesValue")
                  THEN TakeInline(a, st1, x,
                                  IF Tail(bytes) = <<>> THEN <<>> ELSE <<rest>>)
                  ELSE ParseShort(a, st1, Tail(bytes))

\* A positional candidate (or any token after the terminator): the value of
\* the positional argument whose index is the next unfilled one.
ParsePositional(a, st, tok) ==
    LET found == find_by_position(a, st.pos) IN
    IF found = {} THEN Fail(st, "UnknownArgument")
    ELSE LET x == CHOOSE y \in found : TRUE
             st1 == [st EXCEPT !.seen = Append(@, [id |-> x, vals |-> <<>>])]
             st2 == AddVal(a, st1, tok)
         IN  IF is_set(a[x], "MultipleValues") \/ is_set(a[x], "MultipleOccurrences")
             THEN st2
             ELSE [st2 EXCEPT !.pos = @ + 1]

\* One token, by its kind, with no option waiting for a value.
Dispatch(a, st, tok) ==
    IF st.err # None THEN st
    ELSE IF st.trailing THEN ParsePositional(a, st, tok)
    ELSE CASE Classify(tok) = "terminator" -> [st EXCEPT !.trailing = TRUE]
           [] Classify(tok) = "long" -> ParseLong(a, st, tok)
           [] Classify(tok) = "short" -> ParseShort(a, st, Tail(tok))
           [] OTHER -> ParsePositional(a, st, tok)

\* One step of the engine: an option waiting for values takes a
\* positional-shaped token as its value; any other token ends its values.
Step(a, st, tok) ==
    IF st.pending # None /\ ~st.trailing /\ Classify(tok) = "positional"
    THEN AfterValue(a, AddVal(a, st, tok))
    ELSE Dispatch(a, ClosePending(st), tok)

\* ------------------------------------------------------------ subcommands

\* SubCommand: the identity of the subcommand and its own matches.
SubCommandNew(id) == [id |-> id, matches |-> MatchStateNew]

\* The subcommands of subs (name -> [name: the token, args: its arguments])
\* that answer to the token.
find_subcommand(subs, tok) == {n \in DOMAIN subs : subs[n].name = tok}

\* The arguments a subcommand matches: its own, and the Global ones of its
\* parent (global arguments propagate down).
ChildArgs(a, subs, n) ==
    LET G == {x \in DOMAIN a : is_set(a[x], "Global")} \ DOMAIN subs[n].args
    IN  [x \in DOMAIN subs[n].args \cup G |->
            IF x \in G THEN a[x] ELSE subs[n].args[x]]

\* The state without its subcommand: what the parent itself recorded.
Own(st) == [st EXCEPT !.subcommand = <<>>]

\* The error that ended the parse, in the parent or in the subcommand.
ErrOf(st) ==
    IF st.err # None THEN st.err
    ELSE IF st.subcommand # <<>> THEN st.subcommand[1].matches.err
    ELSE None

\* One step of the engine of an application with subcommands: once a
\* subcommand is entered its state consumes every token; a positional
\* candidate met with no option waiting and no positional left to fill, and
\* which is the name of a subcommand, enters it; any other token is the
\* parent's.
StepSub(a, subs, st, tok) ==
    IF st.subcommand # <<>>
    THEN LET sc == st.subcommand[1] IN
         [st EXCEPT !.subcommand =
             <<[sc EXCEPT !.matches = Step(ChildArgs(a, subs, sc.id), sc.matches, tok)]>>]
    ELSE IF /\ st.pending = None
            /\ ~st.trailing
            /\ Classify(tok) = "positional"
            /\ find_by_position(a, st.pos) = {}
            /\ find_subcommand(subs, tok) # {}
    THEN [st EXCEPT !.subcommand =
             <<SubCommandNew(CHOOSE n \in find_subcommand(subs, tok) : TRUE)>>]
    ELSE Step(a, st, tok)

\* ------------------------------------------------ finalization: overrides

\* Whether some override rule of x names y.
Overrides(a, x, y) ==
    \E i \in 1..Len(a[x].overrides) :
        \E j \in 1..Len(a[x].overrides[i].conds) :
            a[x].overrides[i].conds[j].id = y

\* A positional, or an argument with one of the Multiple* settings, that
\* lists itself as an override: the rule is ignored.
SelfOverrideIgnored(a, x) ==
    \/ Key_is_positional(a[x].key)
    \/ is_set(a[x], "MultipleOccurrences")
    \/ is_set(a[x], "MultipleValues")

\* Whether a new occurrence of x erases what was recorded for y: the two
\* override each other (declared on either side, the later one wins), or y
\* is x itself, overriding itself.
Erases(a, x, y) ==
    IF y = x THEN OverridesSelf(a, x) /\ ~SelfOverrideIgnored(a, x)
    ELSE Overrides(a, x, y) \/ Overrides(a, y, x)

RECURSIVE RemoveOverrides(_, _, _)
\* Step 1: the occurrences in the order they were recorded; each erases the
\* earlier occurrences of what it overrides, as if never supplied.
RemoveOverrides(a, kept, rest) ==
    IF rest = <<>> THEN kept
    ELSE LET e == rest[1]
             Keep(k) == ~Erases(a, e.id, k.id)
         IN  RemoveOverrides(a, Append(SelectSeq(kept, Keep), e), Tail(rest))

\* --------------------------------------- rule evaluator (section 4.3)

\* An argument is used when it has an occurrence; a group, when a member is.
Used(a, g, st, id) ==
    IF id \in DOMAIN g
    THEN \E i \in 1..Len(g[id].args) : is_present(st, g[id].args[i])
    ELSE is_present(st, id)

\* The values recorded for an argument, as a set (none for a group).
ValueSet(st, id) ==
    LET v == values_of(st, id) IN {v[i] : i \in 1..Len(v)}

ConditionHolds(a, g, st, c) ==
    /\ Used(a, g, st, c.id)
    /\ c.val = <<>> \/ c.val[1] \in ValueSet(st, c.id)

\* evaluate(condition_set, modifier): All needs every condition, Any one.
Evaluate(a, g, st, r) ==
    IF r.all
    THEN \A i \in 1..Len(r.conds) : ConditionHolds(a, g, st, r.conds[i])
    ELSE \E i \in 1..Len(r.conds) : ConditionHolds(a, g, st, r.conds[i])

RuleIds(r) == {r.conds[i].id : i \in 1..Len(r.conds)}

\* ------------------------------------------ finalization: validation

Ok == [kind |-> "Ok", ids |-> {}]

Error(kind, ids) == [kind |-> kind, ids |-> ids]

\* Whether x and y are in conflict, declared on either side.
ConflictsDeclared(a, x, y) ==
    \/ \E i \in 1..Len(a[x].conflicts) : y \in RuleIds(a[x].conflicts[i])
    \/ \E i \in 1..Len(a[y].conflicts) : x \in RuleIds(a[y].conflicts[i])

\* Step 4: x is required when marked so, when a required_if pair matches, or
\* when it carries a required_unless rule; an unless rule that holds, or a
\* used argument in conflict with x, suppresses the requirement.
IsRequired(a, g, st, x) ==
    /\ \/ is_set(a[x], "Required")
       \/ \E i \in 1..Len(a[x].r_ifs) :
              ConditionHolds(a, g, st,
                             [id |-> a[x].r_ifs[i][1], val |-> <<a[x].r_ifs[i][2]>>])
       \/ a[x].self_required # <<>>
    /\ ~\E i \in 1..Len(a[x].self_required) :
           a[x].self_required[i].unless /\ Evaluate(a, g, st, a[x].self_required[i])
    /\ ~\E y \in DOMAIN a : y # x /\ is_present(st, y) /\ ConflictsDeclared(a, x, y)

MissingRequired(a, g, st) ==
    {x \in DOMAIN a : IsRequired(a, g, st, x) /\ ~is_present(st, x)}

\* Step 5: a used argument one of whose conflict rules holds, with the used
\* entities that rule names.
ConflictsOf(a, g, st, x) ==
    UNION {IF is_present(st, x) /\ Evaluate(a, g, st, a[x].conflicts[i])
           THEN {x} \cup {y \in RuleIds(a[x].conflicts[i]) : Used(a, g, st, y)}
           ELSE {} : i \in 1..Len(a[x].conflicts)}

Conflicting(a, g, st) == UNION {ConflictsOf(a, g, st, x) : x \in DOMAIN a}

\* Step 6: the targets a used argument requires and that were not used.
UnmetOf(a, g, st, x) ==
    UNION {IF is_present(st, x) /\ ~Evaluate(a, g, st, a[x].requirements[i])
           THEN {y \in RuleIds(a[x].requirements[i]) : ~Used(a, g, st, y)}
           ELSE {} : i \in 1..Len(a[x].requirements)}
    \cup
    {a[x].requires[i][2] :
        i \in {j \in 1..Len(a[x].requires) :
                  /\ ConditionHolds(a, g, st, [id |-> x, val |-> a[x].requires[j][1]])
                  /\ ~Used(a, g, st, a[x].requires[j][2])}}

Unmet(a, g, st) == UNION {UnmetOf(a, g, st, x) : x \in DOMAIN a}

\* Step 7: the group rules.
GroupMembersUsed(g, st, n) ==
    {g[n].args[i] : i \in {j \in 1..Len(g[n].args) : is_present(st, g[n].args[j])}}

\* Whether group n and y are in conflict, declared on either side.
GroupConflictsDeclared(a, g, n, y) ==
    \/ \E i \in 1..Len(g[n].conflicts) : g[n].conflicts[i] = y
    \/ y \in DOMAIN a /\ \E i \in 1..Len(a[y].conflicts) : n \in RuleIds(a[y].conflicts[i])

\* A required group with no member used, unless something used conflicts
\* with it.
GroupsMissing(a, g, st) ==
    {n \in DOMAIN g :
        /\ g[n].required
        /\ GroupMembersUsed(g, st, n) = {}
        /\ ~\E y \in (DOMAIN a \cup DOMAIN g) \ {n} :
               Used(a, g, st, y) /\ GroupConflictsDeclared(a, g, n, y)}

GroupsExclusive(a, g, st) ==
    UNION {IF ~g[n].multiple /\ Cardinality(GroupMembersUsed(g, st, n)) > 1
           THEN GroupMembersUsed(g, st, n) ELSE {} : n \in DOMAIN g}

GroupsConflicting(a, g, st) ==
    UNION {IF GroupMembersUsed(g, st, n) # {}
           THEN {g[n].conflicts[i] :
                    i \in {j \in 1..Len(g[n].conflicts) : Used(a, g, st, g[n].conflicts[j])}}
           ELSE {} : n \in DOMAIN g}

GroupsUnmet(a, g, st) ==
    UNION {IF GroupMembersUsed(g, st, n) # {}
           THEN {g[n].requires[i] :
                    i \in {j \in 1..Len(g[n].requires) : ~Used(a, g, st, g[n].requires[j])}}
           ELSE {} : n \in DOMAIN g}

\* Steps 4 to 7 in order; the first step that fails decides the error.  Step
\* 4 reports every required entity left unused, arguments and groups, in one
\* error.
Validate(a, g, st) ==
    IF MissingRequired(a, g, st) \cup GroupsMissing(a, g, st) # {}
    THEN Error("MissingRequiredArgument",
               MissingRequired(a, g, st) \cup GroupsMissing(a, g, st))
    ELSE IF Conflicting(a, g, st) # {}
    THEN Error("ArgumentConflict", Conflicting(a, g, st))
    ELSE IF Unmet(a, g, st) # {}
    THEN Error("MissingRequiredArgument", Unmet(a, g, st))
    ELSE IF GroupsExclusive(a, g, st) # {}
    THEN Error("ArgumentConflict", GroupsExclusive(a, g, st))
    ELSE IF GroupsConflicting(a, g, st) # {}
    THEN Error("ArgumentConflict", GroupsConflicting(a, g, st))
    ELSE IF GroupsUnmet(a, g, st) # {}
    THEN Error("MissingRequiredArgument", GroupsUnmet(a, g, st))
    ELSE Ok

\* Step 2 for one argument: the default of the first entry of
\* default_vals_ifs that st satisfies, else default_val; an option.
DefaultOf(a, st, x) ==
    LET ifs == a[x].default_vals_ifs
        hits == {i \in 1..Len(ifs) :
                    ConditionHolds(a, <<>>, st, [id |-> ifs[i][1], val |-> ifs[i][2]])}
    IN  IF hits # {} THEN <<ifs[CHOOSE i \in hits : \A j \in hits : i <= j][3]>>
        ELSE a[x].default_val

\* Step 2: every argument left unset that has a default gets it.
ApplyDefaults(a, st) ==
    LET S == {x \in DOMAIN a : ~is_present(st, x) /\ DefaultOf(a, st, x) # <<>>}
    IN  [st EXCEPT !.added = [x \in S |-> DefaultOf(a, st, x)]]

\* The value captured from the environment for x; an option.
EnvOf(a, x) == IF a[x].env = <<>> THEN <<>> ELSE a[x].env[1][2]

\* Step 3: an argument with no occurrence whose variable was captured takes
\* the captured value, in place of a default.
ApplyEnv(a, st) ==
    LET S == {x \in DOMAIN a : occurrences_of(st, x) = 0 /\ EnvOf(a, x) # <<>>}
    IN  [st EXCEPT !.added =
            [x \in S \cup DOMAIN st.added |->
                IF x \in S THEN ValuePieces(a[x], EnvOf(a, x)[1]) ELSE st.added[x]]]

\* The arguments given on the command line whose count of values is not the
\* exact number they declare: a multiple of it when the argument may occur
\* several times, the number itself otherwise.
WrongNumber(a, st) ==
    {x \in DOMAIN a :
        /\ a[x].num_vals # <<>>
        /\ occurrences_of(st, x) > 0
        /\ LET k == Len(ValuesIn(st.seen, x))
               n == a[x].num_vals[1]
           IN  IF is_set(a[x], "MultipleOccurrences")
               THEN n = 0 \/ k % n # 0
               ELSE k # n}

\* End of input: the waiting option is closed, overrides are removed, the
\* counts of values are checked, defaults and the environment fill what is
\* unset, and the rules are evaluated on what is left.
Finalized(a, st) ==
    LET st1 == ClosePending(st)
        st2 == [st1 EXCEPT !.seen = RemoveOverrides(a, <<>>, st1.seen)]
    IN  IF st1.err # None THEN st1
        ELSE IF WrongNumber(a, st2) # {} THEN Fail(st2, "WrongNumberOfValues")
        ELSE ApplyEnv(a, ApplyDefaults(a, st2))

\* ---------------------------------------------------------------- actions

NoResult == [kind |-> "Pending", ids |-> {}]

Building == phase = "build" /\ Len(calls) < MaxCalls

\* The raw values the builder calls and the command lines use.
Vs == <<"s">>
Vt == <<"t">>
Va == <<"a">>
Vb == <<"b">>
Vd == <<"d">>
Ve == <<"e">>

\* A builder call on argument x: the argument is replaced by what the
\* builder returns, and the call is remembered.
Built(x, arg, call) ==
    /\ app' = [app EXCEPT ![x] = arg]
    /\ calls' = Append(calls, call)
    /\ UNCHANGED <<groups, phase, input, ms, result>>

Call(fn, x, y, v) == [fn |-> fn, on |-> x, other |-> y, val |-> v]

Called(c) == \E i \in 1..Len(calls) : calls[i].fn = c.fn /\ calls[i] = c

\* Arg::required(r) on an argument of the application.
CallRequired ==
    /\ Building
    /\ \E x \in DOMAIN app, r \in BOOLEAN :
           Built(x, required(app[x], r), Call("required", x, None, <<r>>))

\* Arg::conflicts_with(other).
CallConflictsWith ==
    /\ Building
    /\ \E x \in DOMAIN app : \E y \in DOMAIN app \ {x} :
           Built(x, conflicts_with(app[x], y), Call("conflicts_with", x, y, <<>>))

\* Arg::overrides_with(other), for another argument.
CallOverridesWith ==
    /\ Building
    /\ \E x \in DOMAIN app : \E y \in DOMAIN app \ {x} :
           Built(x, overrides_with(app[x], y), Call("overrides_with", x, y, <<>>))

\* Arg::overrides_with(other) naming the argument itself.
CallOverridesSelf ==
    /\ Building
    /\ \E x \in DOMAIN app :
           Built(x, overrides_with(app[x], x), Call("overrides_with", x, x, <<>>))

\* Arg::multiple_occurrences(true).
CallMultipleOccurrences ==
    /\ Building
    /\ \E x \in DOMAIN app :
           Built(x, multiple_occurrences(app[x], TRUE),
                 Call("multiple_occurrences", x, None, <<TRUE>>))

\* Arg::multiple_values(true).
CallMultipleValues ==
    /\ Building
    /\ \E x \in DOMAIN app :
           Built(x, multiple_values(app[x], TRUE),
                 Call("multiple_values", x, None, <<TRUE>>))

\* Arg::value_delimiter(";").
CallValueDelimiter ==
    /\ Building
    /\ \E x \in DOMAIN app :
           Built(x, value_delimiter(app[x], <<";">>),
                 Call("value_delimiter", x, None, <<";">>))

\* Arg::global(g).
CallGlobal ==
    /\ Building
    /\ \E x \in DOMAIN app : \E g \in BOOLEAN :
           Built(x, global(app[x], g), Call("global", x, None, <<g>>))

\* Arg::short(s).
CallShort ==
    /\ Building
    /\ \E x \in DOMAIN app : \E c \in {"a", "b"} :
           Built(x, short(app[x], c), Call("short", x, None, <<c>>))

\* Arg::long(l).
CallLong ==
    /\ Building
    /\ \E x \in DOMAIN app : \E l \in {<<"a">>, <<"b">>} :
           Built(x, long(app[x], l), Call("long", x, None, <<l>>))

\* Arg::index(idx).
CallIndex ==
    /\ Building
    /\ \E x \in DOMAIN app : \E idx \in {1, 2} :
           Built(x, index(app[x], idx), Call("index", x, None, <<idx>>))

\* Arg::takes_value(true).
CallTakesValue ==
    /\ Building
    /\ \E x \in DOMAIN app :
           Built(x, takes_value(app[x], TRUE), Call("takes_value", x, None, <<TRUE>>))

\* Arg::value_name("N").
CallValueName ==
    /\ Building
    /\ \E x \in DOMAIN app :
           Built(x, value_name(app[x], "N"), Call("value_name", x, None, <<"N">>))

\* Arg::value_names(&[...]).
CallValueNames ==
    /\ Building
    /\ \E x \in DOMAIN app : \E names \in {<<"N">>, <<"N", "M">>} :
           Built(x, value_names(app[x], names),
                 Call("value_names", x, None, names))

\* Arg::require_delimiter(d).
CallRequireDelimiter ==
    /\ Building
    /\ \E x \in DOMAIN app : \E d \in BOOLEAN :
           Built(x, require_delimiter(app[x], d),
                 Call("require_delimiter", x, None, <<d>>))

\* The other arguments of the application, in one order.
Others(x) ==
    LET RECURSIVE Seqd(_)
        Seqd(S) == IF S = {} THEN <<>>
                   ELSE LET y == CHOOSE z \in S : TRUE IN <<y>> \o Seqd(S \ {y})
    IN  Seqd(DOMAIN app \ {x})

\* Arg::conflicts_with_all(&[all the other arguments]).
CallConflictsWithAll ==
    /\ Building
    /\ \E x \in DOMAIN app :
           Built(x, conflicts_with_all(app[x], Others(x)),
                 Call("conflicts_with_all", x, None, Others(x)))

\* Arg::requires(other).
CallRequires ==
    /\ Building
    /\ \E x \in DOMAIN app : \E y \in DOMAIN app \ {x} :
           Built(x, requires(app[x], y), Call("requires", x, y, <<>>))

\* Arg::required_unless(other).
CallRequiredUnless ==
    /\ Building
    /\ \E x \in DOMAIN app : \E y \in DOMAIN app \ {x} :
           Built(x, required_unless(app[x], y), Call("required_unless", x, y, <<>>))

\* Arg::required_unless_one(&[all the other arguments]).
CallRequiredUnlessOne ==
    /\ Building
    /\ \E x \in DOMAIN app :
           Built(x, required_unless_one(app[x], Others(x)),
                 Call("required_unless_one", x, None, Others(x)))

\* Arg::required_unless_all(&[all the other arguments]).
CallRequiredUnlessAll ==
    /\ Building
    /\ \E x \in DOMAIN app :
           Built(x, required_unless_all(app[x], Others(x)),
                 Call("required_unless_all", x, None, Others(x)))

\* Arg::requires_all(&[all the other arguments]).
CallRequiresAll ==
    /\ Building
    /\ \E x \in DOMAIN app :
           Built(x, requires_all(app[x], Others(x)),
                 Call("requires_all", x, None, Others(x)))

\* Arg::requires_if(val, other).
CallRequiresIf(V) ==
    /\ Building
    /\ \E x \in DOMAIN app : \E y \in DOMAIN app \ {x} : \E v \in V :
           Built(x, requires_if(app[x], v, y), Call("requires_if", x, y, <<v>>))

\* Arg::requires_ifs(&[(val, other)]).
CallRequiresIfs(V) ==
    /\ Building
    /\ \E x \in DOMAIN app : \E y \in DOMAIN app \ {x} : \E v \in V :
           Built(x, requires_ifs(app[x], <<<<v, y>>>>), Call("requires_ifs", x, y, <<v>>))

\* Arg::default_value("d").
CallDefaultValue ==
    /\ Building
    /\ \E x \in DOMAIN app :
           Built(x, default_value(app[x], Vd), Call("default_value", x, None, <<Vd>>))

\* Arg::env("MY_FLAG"), the variable unset or set to "e" at that moment.
CallEnv ==
    /\ Building
    /\ \E x \in DOMAIN app : \E var \in {<<>>, <<Ve>>} :
           Built(x, env(app[x], "MY_FLAG", var), Call("env", x, None, var))

\* Arg::default_value_if(other, None or Some("s"), "a" or "b").
CallDefaultValueIf ==
    /\ Building
    /\ \E x \in DOMAIN app : \E y \in DOMAIN app \ {x} :
       \E vo \in {<<>>, <<Vs>>} : \E d \in {Va, Vb} :
           Built(x, default_value_if(app[x], y, vo, d),
                 Call("default_value_if", x, None, <<<<y, vo, d>>>>))

\* Arg::default_value_ifs(&[(other, Some("s"), "a"), (other, None, "b")]).
CallDefaultValueIfs ==
    /\ Building
    /\ \E x \in DOMAIN app : \E y \in DOMAIN app \ {x} :
           LET ifs == <<<<y, <<Vs>>, Va>>, <<y, <<>>, Vb>>>> IN
           Built(x, default_value_ifs(app[x], ifs), Call("default_value_ifs", x, None, ifs))

\* Arg::max_values(qty), qty one of Q.
CallMaxValues(Q) ==
    /\ Building
    /\ \E x \in DOMAIN app : \E qty \in Q :
           Built(x, max_values(app[x], qty), Call("max_values", x, None, <<qty>>))

\* Arg::number_of_values(qty), qty one of Q.
CallNumberOfValues(Q) ==
    /\ Building
    /\ \E x \in DOMAIN app : \E qty \in Q :
           Built(x, number_of_values(app[x], qty),
                 Call("number_of_values", x, None, <<qty>>))

\* Arg::required_if(other, val).
CallRequiredIf(V) ==
    /\ Building
    /\ \E x \in DOMAIN app : \E y \in DOMAIN app \ {x} : \E v \in V :
           Built(x, required_if(app[x], y, v), Call("required_if", x, y, <<v>>))

\* Arg::required_ifs(&[(other, v), (other, w)]) with two values of one other.
CallRequiredIfs(V) ==
    /\ Building
    /\ \E x \in DOMAIN app : \E y \in DOMAIN app \ {x} : \E v \in V : \E w \in V \ {v} :
           Built(x, required_ifs(app[x], <<<<y, v>>, <<y, w>>>>),
                 Call("required_ifs", x, y, <<v, w>>))

\* A builder call on group n.
BuiltGroup(n, grp, call) ==
    /\ groups' = [groups EXCEPT ![n] = grp]
    /\ calls' = Append(calls, call)
    /\ UNCHANGED <<app, phase, input, ms, result>>

\* ArgGroup::arg(x).
CallGroupArg ==
    /\ Building
    /\ \E n \in DOMAIN groups : \E x \in DOMAIN app :
           BuiltGroup(n, ArgGroup_arg(groups[n], x), Call("group_arg", n, x, <<>>))

\* ArgGroup::required(true).
CallGroupRequired ==
    /\ Building
    /\ \E n \in DOMAIN groups :
           BuiltGroup(n, ArgGroup_required(groups[n], TRUE),
                      Call("group_required", n, None, <<TRUE>>))

\* ArgGroup::conflicts_with(x).
CallGroupConflictsWith ==
    /\ Building
    /\ \E n \in DOMAIN groups : \E x \in DOMAIN app :
           BuiltGroup(n, ArgGroup_conflicts_with(groups[n], x),
                      Call("group_conflicts_with", n, x, <<>>))

\* ArgGroup::requires(x).
CallGroupRequires ==
    /\ Building
    /\ \E n \in DOMAIN groups : \E x \in DOMAIN app :
           BuiltGroup(n, ArgGroup_requires(groups[n], x),
                      Call("group_requires", n, x, <<>>))

\* ArgGroup::requires_all(&["D", "V"]).
CallGroupRequiresAll ==
    /\ Building
    /\ \E n \in DOMAIN groups :
           BuiltGroup(n, ArgGroup_requires_all(groups[n], <<"D", "V">>),
                      Call("group_requires_all", n, None, <<"D", "V">>))

\* Arg::required(true).
CallRequiredTrue ==
    /\ Building
    /\ \E x \in DOMAIN app :
           Built(x, required(app[x], TRUE), Call("required", x, None, <<TRUE>>))

\* ArgGroup::multiple(m).
CallGroupMultiple ==
    /\ Building
    /\ \E n \in DOMAIN groups : \E m \in BOOLEAN :
           BuiltGroup(n, ArgGroup_multiple(groups[n], m),
                      Call("group_multiple", n, None, <<m>>))

\* What App checks of the positionals when it is built: one that is multiple
\* has the highest index.
ValidApp(a) ==
    \A x \in DOMAIN a :
        (/\ Key_is_positional(a[x].key)
         /\ is_set(a[x], "MultipleValues") \/ is_set(a[x], "MultipleOccurrences"))
        => \A y \in DOMAIN a : a[y].key.index <= a[x].key.index

\* The application is handed to the parser: every argument is built
\* (Arg::_build) and the MatchState is fresh.
Start ==
    /\ phase = "build"
    /\ ValidApp(app)
    /\ phase' = "parse"
    /\ app' = [x \in DOMAIN app |-> Arg_build(app[x])]
    /\ ms' = MatchStateNew
    /\ UNCHANGED <<groups, calls, input, result>>

\* The engine consumes the next token of the command line, one of T.
ParseToken(T) ==
    /\ phase = "parse"
    /\ Len(input) < MaxTokens
    /\ \E tok \in T :
        LET st == Step(app, ms, tok) IN
        /\ input' = Append(input, tok)
        /\ ms' = st
        /\ phase' = IF st.err # None THEN "done" ELSE "parse"
        /\ result' = IF st.err # None THEN Error(st.err, {}) ELSE result
    /\ UNCHANGED <<app, groups, calls>>

\* End of input: finalization and validation give the outcome.
Finish ==
    /\ phase = "parse"
    /\ LET st == Finalized(app, ms) IN
        /\ ms' = st
        /\ result' = IF st.err # None THEN Error(st.err, {})
                     ELSE Validate(app, groups, st)
    /\ phase' = "done"
    /\ UNCHANGED <<app, groups, calls, input>>

\* ------------------------------------------------- Spec: conflicts, overrides

La == <<"a">>
Lb == <<"b">>
Lc == <<"c">>
Dashes == <<"-", "-">>

\* prog with --a (flag), --b <val> (option) and --c (flag).
AppSwitches ==
    [x \in {"A", "B", "C"} |->
        CASE x = "A" -> long(ArgNew("A"), La)
          [] x = "B" -> takes_value(long(ArgNew("B"), Lb), TRUE)
          [] x = "C" -> long(ArgNew("C"), Lc)]

TokensSwitches == {Dashes \o La, Dashes \o Lb \o <<"=">> \o Vs, Dashes \o Lc}

InitWith(a, g) ==
    /\ app = a
    /\ groups = g
    /\ phase = "build"
    /\ calls = <<>>
    /\ input = <<>>
    /\ ms = MatchStateNew
    /\ result = NoResult

NoGroups == [n \in {} |-> ArgGroupNew(n)]

Init == InitWith(AppSwitches, NoGroups)

Next ==
    \/ CallRequired
    \/ CallConflictsWith
    \/ CallOverridesWith
    \/ Start
    \/ ParseToken(TokensSwitches)
    \/ Finish

Spec == Init /\ [][Next]_vars

\* ------------------------------------------- SpecOverride: self-overrides

Lo == <<"o">>

\* posix with --o <val> (option) and -d (flag).
AppPosix ==
    [x \in {"O", "D"} |->
        CASE x = "O" -> takes_value(long(ArgNew("O"), Lo), TRUE)
          [] x = "D" -> short(ArgNew("D"), "d")]

TokensPosix ==
    {Dashes \o Lo \o <<"=">> \o Vs, Dashes \o Lo \o <<"=">> \o Vt,
     Dashes \o Lo, Vs, <<"-", "d">>, <<"-", "d", "d">>}

InitOverride == InitWith(AppPosix, NoGroups)

NextOverride ==
    \/ CallOverridesSelf
    \/ CallMultipleOccurrences
    \/ CallMultipleValues
    \/ Start
    \/ ParseToken(TokensPosix)
    \/ Finish

SpecOverride == InitOverride /\ [][NextOverride]_vars

\* ----------------------------------------- SpecDelimiter: value delimiter

Lk == <<"k">>
Vab == <<"a", ";", "b">>

\* prog with --k (config) and one positional.
AppConfig ==
    [x \in {"K", "P"} |->
        CASE x = "K" -> long(ArgNew("K"), Lk)
          [] x = "P" -> index(ArgNew("P"), 1)]

TokensConfig ==
    {Dashes \o Lk \o <<"=">> \o Vab, Dashes \o Lk \o <<"=">> \o Va,
     Dashes \o Lk, Vb}

InitDelimiter == InitWith(AppConfig, NoGroups)

NextDelimiter ==
    \/ CallValueDelimiter
    \/ CallTakesValue
    \/ Start
    \/ ParseToken(TokensConfig)
    \/ Finish

SpecDelimiter == InitDelimiter /\ [][NextDelimiter]_vars

\* ------------------------------------- SpecPositional: positional matching

Lx == "x"

\* prog [--k <FILE>] [-x] <first> <second>
AppFiles ==
    [x \in {"K", "X", "P1", "P2"} |->
        CASE x = "K" -> takes_value(long(ArgNew("K"), Lk), TRUE)
          [] x = "X" -> short(ArgNew("X"), Lx)
          [] x = "P1" -> index(ArgNew("P1"), 1)
          [] x = "P2" -> index(ArgNew("P2"), 2)]

TokensFiles == {Dashes \o Lk, <<"-", Lx>>, Dashes, Va, Vb}

InitPositional == InitWith(AppFiles, NoGroups)

NextPositional ==
    \/ CallMultipleValues
    \/ Start
    \/ ParseToken(TokensFiles)
    \/ Finish

SpecPositional == InitPositional /\ [][NextPositional]_vars

\* ------------------------------------------------ SpecGroup: one group

\* prog [-f] [-c] [-d] with the group G of -f and -c.
AppFlags ==
    [x \in {"F", "C", "D"} |->
        CASE x = "F" -> short(ArgNew("F"), "f")
          [] x = "C" -> short(ArgNew("C"), "c")
          [] x = "D" -> short(ArgNew("D"), "d")]

GroupsFlags == [n \in {"G"} |-> ArgGroup_args(ArgGroupNew(n), <<"F", "C">>)]

TokensFlags == {<<"-", "f">>, <<"-", "c">>, <<"-", "d">>, <<"-", "f", "c">>}

InitGroup == InitWith(AppFlags, GroupsFlags)

NextGroup ==
    \/ CallGroupArg
    \/ CallGroupMultiple
    \/ Start
    \/ ParseToken(TokensFlags)
    \/ Finish

SpecGroup == InitGroup /\ [][NextGroup]_vars

\* ------------------------------------------ SpecRequiredIf: required_if

\* prog [--b <other>] [--c <cfg>]
AppOther ==
    [x \in {"B", "C"} |->
        CASE x = "B" -> takes_value(long(ArgNew("B"), Lb), TRUE)
          [] x = "C" -> takes_value(long(ArgNew("C"), Lc), TRUE)]

TokensOther ==
    {Dashes \o Lb \o <<"=">> \o Vs, Dashes \o Lb \o <<"=">> \o Vt,
     Dashes \o Lc \o <<"=">> \o Vs}

InitRequiredIf == InitWith(AppOther, NoGroups)

NextRequiredIf ==
    \/ CallRequiredIf({Vs, Vt})
    \/ CallRequiredIfs({Vs, Vt})
    \/ Start
    \/ ParseToken(TokensOther)
    \/ Finish

SpecRequiredIf == InitRequiredIf /\ [][NextRequiredIf]_vars

\* --------------------------------------------- SpecUnless: required_unless

InitUnless == InitWith(AppSwitches, NoGroups)

NextUnless ==
    \/ CallRequiredUnless
    \/ CallRequiredUnlessOne
    \/ CallRequiredUnlessAll
    \/ Start
    \/ ParseToken(TokensSwitches)
    \/ Finish

SpecUnless == InitUnless /\ [][NextUnless]_vars

\* ------------------------------------------------ SpecRequires: requires

InitRequires == InitWith(AppSwitches, NoGroups)

NextRequires ==
    \/ CallRequires
    \/ CallRequiresAll
    \/ Start
    \/ ParseToken(TokensSwitches)
    \/ Finish

SpecRequires == InitRequires /\ [][NextRequires]_vars

\* -------------------------------------------- SpecRequiresIf: requires_if

InitRequiresIf == InitWith(AppOther, NoGroups)

NextRequiresIf ==
    \/ CallRequiresIf({Vs, Vt})
    \/ CallRequiresIfs({Vs, Vt})
    \/ Start
    \/ ParseToken(TokensOther)
    \/ Finish

SpecRequiresIf == InitRequiresIf /\ [][NextRequiresIf]_vars

\* ------------------------------------- SpecConflictsAll: conflicts_with_all

InitConflictsAll == InitWith(AppSwitches, NoGroups)

NextConflictsAll ==
    \/ CallConflictsWith
    \/ CallConflictsWithAll
    \/ Start
    \/ ParseToken(TokensSwitches)
    \/ Finish

SpecConflictsAll == InitConflictsAll /\ [][NextConflictsAll]_vars

\* ------------------------- SpecPrecedence: conflicts before requirements

InitPrecedence == InitWith(AppFlags, GroupsFlags)

NextPrecedence ==
    \/ CallRequiredTrue
    \/ CallConflictsWith
    \/ CallGroupRequired
    \/ CallGroupConflictsWith
    \/ Start
    \/ ParseToken(TokensFlags)
    \/ Finish

SpecPrecedence == InitPrecedence /\ [][NextPrecedence]_vars

\* ------------------------------------ SpecDefault: default_value and env

InitDefault == InitWith(AppConfig, NoGroups)

NextDefault ==
    \/ CallDefaultValue
    \/ CallEnv
    \/ CallTakesValue
    \/ Start
    \/ ParseToken(TokensConfig)
    \/ Finish

SpecDefault == InitDefault /\ [][NextDefault]_vars

\* ------------------------------------- SpecDefaultIfs: default_value_if

InitDefaultIfs == InitWith(AppOther, NoGroups)

NextDefaultIfs ==
    \/ CallDefaultValue
    \/ CallDefaultValueIf
    \/ CallDefaultValueIfs
    \/ Start
    \/ ParseToken(TokensOther)
    \/ Finish

SpecDefaultIfs == InitDefaultIfs /\ [][NextDefaultIfs]_vars

\* ----------------------------------------------- SpecMax: max_values

\* prog [--k <FILE>...] [<first>]
AppFile ==
    [x \in {"K", "P"} |->
        CASE x = "K" -> takes_value(long(ArgNew("K"), Lk), TRUE)
          [] x = "P" -> index(ArgNew("P"), 1)]

InitMax == InitWith(AppFile, NoGroups)

NextMax ==
    \/ CallMaxValues({1, 2})
    \/ CallValueDelimiter
    \/ CallMultipleValues
    \/ Start
    \/ ParseToken(TokensConfig)
    \/ Finish

SpecMax == InitMax /\ [][NextMax]_vars

\* ------------------------------------- SpecNumber: number_of_values

\* prog [--k <FILE>] [<rest>...]
AppRest ==
    [x \in {"K", "P"} |->
        CASE x = "K" -> takes_value(long(ArgNew("K"), Lk), TRUE)
          [] x = "P" -> multiple_values(index(ArgNew("P"), 1), TRUE)]

InitNumber == InitWith(AppRest, NoGroups)

NextNumber ==
    \/ CallNumberOfValues({1, 2})
    \/ CallValueDelimiter
    \/ CallMultipleOccurrences
    \/ Start
    \/ ParseToken(TokensConfig)
    \/ Finish

SpecNumber == InitNumber /\ [][NextNumber]_vars

\* ------------------------------------- SpecGroupRequired: required groups

InitGroupRequired == InitWith(AppFlags, GroupsFlags)

NextGroupRequired ==
    \/ CallGroupArg
    \/ CallGroupRequired
    \/ CallGroupMultiple
    \/ Start
    \/ ParseToken(TokensFlags)
    \/ Finish

SpecGroupRequired == InitGroupRequired /\ [][NextGroupRequired]_vars

\* ------------------------------- SpecGroupRules: requires and conflicts

\* prog [-f] [-c] [-d] [-v] with the group G of -f and -c.
AppVerb ==
    [x \in {"F", "C", "D", "V"} |->
        CASE x = "F" -> short(ArgNew("F"), "f")
          [] x = "C" -> short(ArgNew("C"), "c")
          [] x = "D" -> short(ArgNew("D"), "d")
          [] x = "V" -> short(ArgNew("V"), "v")]

TokensVerb == {<<"-", "f">>, <<"-", "c">>, <<"-", "d">>, <<"-", "v">>}

InitGroupRules == InitWith(AppVerb, GroupsFlags)

NextGroupRules ==
    \/ CallGroupRequires
    \/ CallGroupRequiresAll
    \/ CallGroupConflictsWith
    \/ Start
    \/ ParseToken(TokensVerb)
    \/ Finish

SpecGroupRules == InitGroupRules /\ [][NextGroupRules]_vars

\* ------------------------- SpecAggregate: several required entities

InitAggregate == InitWith(AppVerb, GroupsFlags)

NextAggregate ==
    \/ CallRequiredTrue
    \/ CallGroupRequired
    \/ Start
    \/ ParseToken(TokensVerb)
    \/ Finish

SpecAggregate == InitAggregate /\ [][NextAggregate]_vars

\* ------------------------------------------ SpecSubcommand: subcommands

Lv == <<"v">>
Lt == <<"t">>

\* prog [--v] [--k <val>] with the subcommand t [--x]; subcommands have
\* none of their own.
AppParent ==
    [x \in {"V", "K"} |->
        CASE x = "V" -> long(ArgNew("V"), Lv)
          [] x = "K" -> takes_value(long(ArgNew("K"), Lk), TRUE)]

AppChild == [x \in {"X"} |-> long(ArgNew("X"), <<"x">>)]

SubCommands == [n \in {"T"} |-> [name |-> Lt, args |-> AppChild]]

TokensSub == {Dashes \o Lv, Dashes \o Lk, Lt, Dashes \o <<"x">>}

\* The engine consumes the next token of the command line, one of T, in an
\* application with the subcommands subs.
ParseTokenSub(T, subs) ==
    /\ phase = "parse"
    /\ Len(input) < MaxTokens
    /\ \E tok \in T :
        LET st == StepSub(app, subs, ms, tok) IN
        /\ input' = Append(input, tok)
        /\ ms' = st
        /\ phase' = IF ErrOf(st) # None THEN "done" ELSE "parse"
        /\ result' = IF ErrOf(st) # None THEN Error(ErrOf(st), {}) ELSE result
    /\ UNCHANGED <<app, groups, calls>>

\* The occurrences the subcommand recorded for Global arguments of the
\* parent, which are propagated back up.
PropagatedUp(a, c) ==
    LET IsGlobal(e) == e.id \in DOMAIN a /\ is_set(a[e.id], "Global")
    IN  SelectSeq(c.seen, IsGlobal)

\* End of input with subcommands: the subcommand is finalized and validated
\* first, against its own arguments; then the parent, with the global
\* occurrences of the subcommand added to its own.
FinishSub(subs) ==
    /\ phase = "parse"
    /\ LET has == ms.subcommand # <<>>
           sc == ms.subcommand[1]
           defs == ChildArgs(app, subs, sc.id)
           c == Finalized(defs, sc.matches)
           cres == IF c.err # None THEN Error(c.err, {}) ELSE Validate(defs, NoGroups, c)
           own == IF has /\ c.err = None
                  THEN [Own(ms) EXCEPT !.seen = @ \o PropagatedUp(app, c)]
                  ELSE Own(ms)
           p == Finalized(app, own)
       IN  /\ ms' = [p EXCEPT !.subcommand =
                        IF has THEN <<[sc EXCEPT !.matches = c]>> ELSE <<>>]
           /\ result' = IF has /\ cres # Ok THEN cres
                        ELSE IF p.err # None THEN Error(p.err, {})
                        ELSE Validate(app, groups, p)
    /\ phase' = "done"
    /\ UNCHANGED <<app, groups, calls, input>>

InitSubcommand == InitWith(AppParent, NoGroups)

NextSubcommand ==
    \/ CallGlobal
    \/ Start
    \/ ParseTokenSub(TokensSub, SubCommands)
    \/ FinishSub(SubCommands)

SpecSubcommand == InitSubcommand /\ [][NextSubcommand]_vars

\* ------------------------------------------- SpecRawLong: RawLong::from

\* The texts of at most n bytes over the bytes B.
TextsUpTo(B, n) == UNION {[1..m -> B] : m \in 0..n}

\* The long tokens: `--`, then one to MaxLongLen of the bytes k, v, = and -.
LongTokens ==
    {Dashes \o t : t \in TextsUpTo({"k", "v", "=", "-"}, MaxLongLen) \ {<<>>}}

\* One raw token is handed to the tokenizer.
InitRawLong ==
    /\ app = AppFile
    /\ groups = NoGroups
    /\ phase = "parse"
    /\ calls = <<>>
    /\ \E tok \in LongTokens : input = <<tok>>
    /\ ms = MatchStateNew
    /\ result = NoResult

\* The token is converted; the RawLong is the outcome.
ConvertLong ==
    /\ phase = "parse"
    /\ result' = RawLongFrom(input[1])
    /\ phase' = "done"
    /\ UNCHANGED <<app, groups, calls, input, ms>>

NextRawLong == ConvertLong

SpecRawLong == InitRawLong /\ [][NextRawLong]_vars

\* ----------------------------------- SpecKind: flag, option or positional

\* Two arguments as Arg::new leaves them.
AppNew == [x \in {"A", "B"} |-> ArgNew(x)]

InitKind == InitWith(AppNew, NoGroups)

NextKind ==
    \/ CallShort
    \/ CallLong
    \/ CallIndex
    \/ CallTakesValue

SpecKind == InitKind /\ [][NextKind]_vars

\* ------------------------------------------------ Spec: value names

\* An option, a switchless argument that takes a value, and a flag.
AppNames ==
    [x \in {"O", "P", "F"} |->
        IF x = "O" THEN takes_value(long(ArgNew(x), <<"o">>), TRUE)
        ELSE IF x = "P" THEN takes_value(ArgNew(x), TRUE)
        ELSE long(ArgNew(x), <<"f">>)]

InitNames == InitWith(AppNames, NoGroups)

NextNames ==
    \/ CallValueName
    \/ CallValueNames
    \/ CallNumberOfValues({3})
    \/ CallTakesValue
    \/ Start

SpecNames == InitNames /\ [][NextNames]_vars

\* ------------------------------------------------ Spec: require_delimiter

InitRequireDelimiter == InitWith(AppNew, NoGroups)

NextRequireDelimiter ==
    \/ CallRequireDelimiter
    \/ CallTakesValue
    \/ CallValueDelimiter
    \/ CallMultipleValues
    \/ Start

SpecRequireDelimiter == InitRequireDelimiter /\ [][NextRequireDelimiter]_vars

\* ------------------------------------------------ what a run supplied

Parsed == phase = "done" /\ ms.err = None

\* Token tok is a long switch of argument x (one-character long names).
Names(tok, x) ==
    /\ app[x].key.long # <<>>
    /\ starts_with(tok, Dashes \o app[x].key.long[1])
    /\ Len(tok) = 3 \/ tok[4] = "="

Supplied(x) == \E i \in 1..Len(input) : Names(input[i], x)

OverrideCalled(x, y) ==
    \/ Called(Call("overrides_with", x, y, <<>>))
    \/ Called(Call("overrides_with", y, x, <<>>))

ConflictCalled(x, y) ==
    \/ Called(Call("conflicts_with", x, y, <<>>))
    \/ Called(Call("conflicts_with", y, x, <<>>))

\* x was supplied, and nothing supplied after it overrides it.
Survives(x) ==
    \E i \in 1..Len(input) :
        /\ Names(input[i], x)
        /\ \A j \in (i + 1)..Len(input) : \A y \in DOMAIN app \ {x} :
               Names(input[j], y) => ~OverrideCalled(x, y)

\* The last required(r) call on x had r = TRUE.
RequiredMarked(x) ==
    \E i \in 1..Len(calls) :
        /\ calls[i] = Call("required", x, None, <<TRUE>>)
        /\ \A j \in (i + 1)..Len(calls) :
               calls[j] # Call("required", x, None, <<FALSE>>)

Missing(x) == result.kind = "MissingRequiredArgument" /\ x \in result.ids

\* ------------------------------------------------------------------ claims

\* C1: an argument marked required(true) that is in no conflict rule (and has
\* no required_unless rule, default or environment fallback): a parse that
\* reaches validation without it fails with MissingRequiredArgument naming
\* it; a parse that supplies it (and does not override it away) does not
\* fail for that reason.
C1_RequiredAbsentFails ==
    Parsed =>
        \A x \in DOMAIN app :
            (RequiredMarked(x) /\ \A y \in DOMAIN app : ~ConflictCalled(x, y))
            => /\ ~Supplied(x) => Missing(x)
               /\ Survives(x) => ~Missing(x)

C1_Witness ==
    /\ Parsed
    /\ Len(input) >= 1
    /\ \E x \in DOMAIN app :
        /\ RequiredMarked(x)
        /\ \A y \in DOMAIN app : ~ConflictCalled(x, y)
        /\ ~Supplied(x)
        /\ Missing(x)

\* C2: conflicts are two-way.  When conflicts_with(B) was declared on A (on
\* either one of the two), a parse in which both are used fails with
\* ArgumentConflict naming both, in whichever order they were supplied.  The
\* required check comes first: a parse that also misses a required argument
\* reports that argument instead.
C2_ConflictTwoWay ==
    Parsed =>
        \A x \in DOMAIN app : \A y \in DOMAIN app \ {x} :
            (Called(Call("conflicts_with", x, y, <<>>)) /\ Survives(x) /\ Survives(y))
            => \/ result.kind = "ArgumentConflict" /\ {x, y} \subseteq result.ids
               \/ /\ result.kind = "MissingRequiredArgument"
                  /\ \E z \in result.ids : RequiredMarked(z) /\ ~Survives(z)

\* Only A declares the conflict, B comes first on the command line.
C2_Witness ==
    /\ Parsed
    /\ calls = <<Call("conflicts_with", "A", "B", <<>>)>>
    /\ input = <<Dashes \o Lb \o <<"=">> \o Vs, Dashes \o La>>
    /\ result.kind = "ArgumentConflict"
    /\ result.ids = {"A", "B"}

\* C3: overrides are resolved before the rules are evaluated.  When
\* overrides_with(Y) was declared on X and Y is supplied before X, Y is not
\* present in the result, and an ArgumentConflict can only come from two
\* surviving arguments, never from a conflict declared with Y.
C3_OverriddenNeverUsed ==
    Parsed =>
        \A x \in DOMAIN app : \A y \in DOMAIN app \ {x} :
            (/\ Called(Call("overrides_with", x, y, <<>>))
             /\ \E i \in 1..Len(input) : \E j \in (i + 1)..Len(input) :
                    /\ Names(input[i], y)
                    /\ Names(input[j], x)
                    /\ \A k \in (j + 1)..Len(input) : ~Names(input[k], y))
            => /\ ~is_present(ms, y)
               /\ y \notin result.ids \/ result.kind = "MissingRequiredArgument"
               /\ result.kind = "ArgumentConflict" =>
                      \E u \in DOMAIN app \ {y} : \E v \in DOMAIN app \ {y, u} :
                          ConflictCalled(u, v) /\ Survives(u) /\ Survives(v)

\* Y conflicts with Z, both are supplied, then X overrides Y: no error.
C3_Witness ==
    /\ Parsed
    /\ Called(Call("overrides_with", "C", "A", <<>>))
    /\ Called(Call("conflicts_with", "A", "B", <<>>))
    /\ input = <<Dashes \o La, Dashes \o Lb \o <<"=">> \o Vs, Dashes \o Lc>>
    /\ result = Ok
    /\ ~is_present(ms, "A") /\ is_present(ms, "B") /\ is_present(ms, "C")

RECURSIVE CountByte(_, _)
CountByte(s, b) ==
    IF s = <<>> THEN 0 ELSE (IF s[1] = b THEN 1 ELSE 0) + CountByte(Tail(s), b)

\* How many times token tok supplies argument x: once by its long name, or
\* once per occurrence of its short name in a short token.
TimesIn(tok, x) ==
    IF Names(tok, x) THEN 1
    ELSE IF Len(tok) >= 2 /\ tok[1] = "-" /\ tok[2] # "-" /\ app[x].key.short # None
    THEN CountByte(Tail(tok), app[x].key.short)
    ELSE 0

RECURSIVE TimesSupplied(_, _)
TimesSupplied(toks, x) ==
    IF toks = <<>> THEN 0 ELSE TimesIn(toks[1], x) + TimesSupplied(Tail(toks), x)

\* The value given with the last long switch of x: inline after the '=', or
\* the token that follows the switch.
LastValue(x) ==
    LET i == CHOOSE k \in 1..Len(input) :
                 Names(input[k], x) /\ \A j \in (k + 1)..Len(input) : ~Names(input[j], x)
    IN  IF Len(input[i]) > 3 THEN SubSeq(input[i], 5, Len(input[i]))
        ELSE input[i + 1]

SelfOverriding(x) == Called(Call("overrides_with", x, x, <<>>))

MultipleCalled(x) ==
    \/ Called(Call("multiple_occurrences", x, None, <<TRUE>>))
    \/ Called(Call("multiple_values", x, None, <<TRUE>>))

\* C4: an option without MultipleOccurrences and MultipleValues that lists
\* itself in overrides_with, supplied N >= 1 times: the repeat is never an
\* UnexpectedMultipleUsage, and a parse that reaches the end succeeds with
\* occurrence count 1 and exactly one value, the last one supplied.
C4_SelfOverrideKeepsLast ==
    \A x \in DOMAIN app :
        (is_set(app[x], "TakesValue") /\ SelfOverriding(x) /\ ~MultipleCalled(x))
        => /\ (phase = "done" /\ result.kind = "UnexpectedMultipleUsage")
                  => TimesIn(input[Len(input)], x) = 0
           /\ (Parsed /\ TimesSupplied(input, x) >= 1)
                  => /\ result = Ok
                     /\ occurrences_of(ms, x) = 1
                     /\ values_of(ms, x) = <<LastValue(x)>>

\* --o=s --o s --o=t ends with one occurrence and the value t.
C4_Witness ==
    /\ Parsed
    /\ SelfOverriding("O") /\ ~MultipleCalled("O")
    /\ TimesSupplied(input, "O") = 2
    /\ input[1] = Dashes \o Lo \o <<"=">> \o Vs
    /\ input[Len(input)] = Dashes \o Lo \o <<"=">> \o Vt
    /\ result = Ok
    /\ occurrences_of(ms, "O") = 1
    /\ values_of(ms, "O") = <<Vt>>

\* C5: a flag with MultipleOccurrences supplied N times ends the parse with
\* occurrence count N, whether or not it lists itself in overrides_with, and
\* a repeat of it is never an UnexpectedMultipleUsage.
C5_MultipleOccurrencesCounted ==
    \A x \in DOMAIN app :
        (/\ ~is_set(app[x], "TakesValue")
         /\ Called(Call("multiple_occurrences", x, None, <<TRUE>>)))
        => /\ (phase = "done" /\ result.kind = "UnexpectedMultipleUsage")
                  => TimesIn(input[Len(input)], x) = 0
           /\ Parsed => occurrences_of(ms, x) = TimesSupplied(input, x)

\* -d -dd with a self-override: three occurrences.
C5_Witness ==
    /\ Parsed
    /\ SelfOverriding("D")
    /\ Called(Call("multiple_occurrences", "D", None, <<TRUE>>))
    /\ input = <<<<"-", "d">>, <<"-", "d", "d">>>>
    /\ occurrences_of(ms, "D") = 3
    /\ result = Ok

\* The values written in the one token `--k=...` of the run, split by hand.
Written(tok) ==
    IF tok = Dashes \o Lk \o <<"=">> \o Vab THEN <<Va, Vb>>
    ELSE IF tok = Dashes \o Lk \o <<"=">> \o Va THEN <<Va>>
    ELSE <<>>

\* C6: an argument with a long switch on which value_delimiter(";") was
\* called, given once as `--k=v1;..;vk`: the parse records exactly v1..vk in
\* order with occurrence count 1, whatever follows the token.
C6_DelimiterSplits ==
    Parsed =>
        \A x \in DOMAIN app : \A i \in 1..Len(input) :
            (/\ Called(Call("value_delimiter", x, None, <<";">>))
             /\ TimesSupplied(input, x) = 1
             /\ Names(input[i], x)
             /\ Written(input[i]) # <<>>)
            => /\ occurrences_of(ms, x) = 1
               /\ values_of(ms, x) = Written(input[i])

\* The same with takes_value(true) called as well: this is what the code
\* does guarantee.
C6_SplitsWhenTakesValue ==
    Parsed =>
        \A x \in DOMAIN app : \A i \in 1..Len(input) :
            (/\ Called(Call("value_delimiter", x, None, <<";">>))
             /\ Called(Call("takes_value", x, None, <<TRUE>>))
             /\ TimesSupplied(input, x) = 1
             /\ Names(input[i], x)
             /\ Written(input[i]) # <<>>)
            => /\ occurrences_of(ms, x) = 1
               /\ values_of(ms, x) = Written(input[i])

MultipleValuesCalled(x) == Called(Call("multiple_values", x, None, <<TRUE>>))

RECURSIVE Assign(_, _, _, _)
\* The command line of `prog [--k <FILE>] [-x] <first> <second>` read by
\* hand: opt are the tokens that are values of --k (the token after a bare
\* --k, and the ones after it when --k is greedy), pos the positional
\* candidates: every other token without a leading hyphen, and every token
\* after the first `--`.
Assign(toks, pend, trail, greedy) ==
    IF toks = <<>> THEN [pos |-> <<>>, opt |-> <<>>]
    ELSE LET t == Head(toks) IN
         IF trail
         THEN [Assign(Tail(toks), FALSE, TRUE, greedy) EXCEPT !.pos = <<t>> \o @]
         ELSE IF t = Dashes THEN Assign(Tail(toks), FALSE, TRUE, greedy)
         ELSE IF t[1] = "-" THEN Assign(Tail(toks), t = Dashes \o Lk, FALSE, greedy)
         ELSE IF pend
         THEN [Assign(Tail(toks), greedy, FALSE, greedy) EXCEPT !.opt = <<t>> \o @]
         ELSE [Assign(Tail(toks), FALSE, FALSE, greedy) EXCEPT !.pos = <<t>> \o @]

Assigned == Assign(input, FALSE, FALSE, MultipleValuesCalled("K"))

\* The place of the first `--` of the run, 0 when there is none.
FirstTerminator ==
    IF \E i \in 1..Len(input) : input[i] = Dashes
    THEN CHOOSE i \in 1..Len(input) :
             input[i] = Dashes /\ \A j \in 1..(i - 1) : input[j] # Dashes
    ELSE 0

\* More positional candidates than <first> and <second> can hold.
TooManyPositionals == Len(Assigned.pos) > 2 /\ ~MultipleValuesCalled("P2")

\* C9: every token after the first `--` is a positional value, in order, a
\* later `--` included; --k and -x are counted only before it, and a token
\* after it fails only by finding no positional left to fill.
C9_TerminatorEndsSwitches ==
    LET t == FirstTerminator
        after == SubSeq(input, t + 1, Len(input))
        pv == values_of(ms, "P1") \o values_of(ms, "P2")
    IN  t # 0 =>
          /\ Parsed =>
               /\ Len(pv) >= Len(after)
               /\ SubSeq(pv, Len(pv) - Len(after) + 1, Len(pv)) = after
               /\ \A x \in {"K", "X"} :
                      occurrences_of(ms, x) = TimesSupplied(SubSeq(input, 1, t - 1), x)
          /\ (phase = "done" /\ result.kind # "Ok" /\ t < Len(input)) =>
               /\ result.kind = "UnknownArgument"
               /\ TooManyPositionals

C9_Witness ==
    /\ Parsed
    /\ input = <<Dashes, <<"-", Lx>>, Dashes>>
    /\ values_of(ms, "P1") = <<<<"-", Lx>>>>
    /\ values_of(ms, "P2") = <<Dashes>>

\* C10: the values of --k are exactly the tokens it consumed, and the k-th
\* of the remaining positional candidates is the value of the positional
\* with index k (<second> takes the rest when it is multiple); a candidate is
\* rejected only when there are more of them than positionals.
C10_PositionalIndexCounts ==
    LET c == Assigned.pos IN
    /\ Parsed =>
         /\ values_of(ms, "K") = Assigned.opt
         /\ values_of(ms, "P1") = IF c = <<>> THEN <<>> ELSE <<c[1]>>
         /\ values_of(ms, "P2") = SubSeq(c, 2, Len(c))
    /\ (phase = "done" /\ result.kind = "UnknownArgument") => TooManyPositionals

C10_Witness ==
    /\ Parsed
    /\ input = <<Dashes \o Lk, Va, Vb>>
    /\ values_of(ms, "K") = <<Va>>
    /\ values_of(ms, "P1") = <<Vb>>
    /\ ~is_present(ms, "P2")

\* The members of group n: those it was created with and those added since.
Members(n) ==
    {"F", "C"} \cup
    {calls[i].other :
        i \in {j \in 1..Len(calls) : calls[j].fn = "group_arg" /\ calls[j].on = n}}

MembersSupplied(n) == {x \in Members(n) : TimesSupplied(input, x) > 0}

\* What the last ArgGroup::multiple call on n said, false when there is none.
MultipleOf(n) ==
    LET at == {j \in 1..Len(calls) : calls[j].fn = "group_multiple" /\ calls[j].on = n}
    IN  IF at = {} THEN FALSE
        ELSE calls[CHOOSE j \in at : \A k \in at : k <= j].val[1]

\* C7: two or more members of a group that is not multiple are an
\* ArgumentConflict naming them; one member, or several of a multiple group,
\* pass with the group reported present; no member, and the group is absent.
C7_GroupExclusive ==
    Parsed =>
        \A n \in DOMAIN groups :
            LET k == Cardinality(MembersSupplied(n)) IN
            /\ (~MultipleOf(n) /\ k >= 2) =>
                   result = Error("ArgumentConflict", MembersSupplied(n))
            /\ (k = 1 \/ (MultipleOf(n) /\ k >= 2)) =>
                   result = Ok /\ Used(app, groups, ms, n)
            /\ k = 0 => ~Used(app, groups, ms, n)

C7_Witness ==
    /\ Parsed
    /\ Called(Call("group_multiple", "G", None, <<TRUE>>))
    /\ Called(Call("group_arg", "G", "D", <<>>))
    /\ MembersSupplied("G") = {"C", "D"}
    /\ result = Ok
    /\ Used(app, groups, ms, "G")

\* The run holds the token `--y=v`.
GivenWith(y, v) ==
    \E k \in 1..Len(input) : input[k] = Dashes \o app[y].key.long[1] \o <<"=">> \o v

\* required_if(y, v) was called on x, or required_ifs with the pair (y, v).
RequiredIfCalled(x, y, v) ==
    \E i \in 1..Len(calls) :
        /\ calls[i].fn \in {"required_if", "required_ifs"}
        /\ calls[i].on = x
        /\ calls[i].other = y
        /\ \E j \in 1..Len(calls[i].val) : calls[i].val[j] = v

ActiveFor(x) ==
    \E y \in DOMAIN app \ {x} : \E v \in {Vs, Vt} :
        RequiredIfCalled(x, y, v) /\ GivenWith(y, v)

\* C8: the parse fails with MissingRequiredArgument naming exactly the absent
\* arguments one of whose required_if / required_ifs pairs (y, v) is matched
\* by `--y=v`; with no such argument it succeeds.
C8_RequiredIfValue ==
    Parsed =>
        LET missing == {x \in DOMAIN app : ~Supplied(x) /\ ActiveFor(x)} IN
        IF missing = {} THEN result = Ok
        ELSE result = Error("MissingRequiredArgument", missing)

C8_Witness ==
    /\ Parsed
    /\ Called(Call("required_if", "C", "B", <<Vs>>))
    /\ input = <<Dashes \o Lb \o <<"=">> \o Vs>>
    /\ result = Error("MissingRequiredArgument", {"C"})

\* A required_unless call on x of one of the kinds F.
UnlessCalls(x, F) == {i \in 1..Len(calls) : calls[i].on = x /\ calls[i].fn \in F}

\* The arguments a required_unless call names.
NamedBy(c) == IF c.fn = "required_unless" THEN {c.other}
              ELSE {c.val[j] : j \in 1..Len(c.val)}

UnlessAny == {"required_unless", "required_unless_one"}

UnlessEvery == {"required_unless_all"}

\* No argument but x is left demanded by a required_unless call of its own.
NothingElseDemanded(x) ==
    \A y \in DOMAIN app \ {x} : Supplied(y) \/ UnlessCalls(y, UnlessAny \cup UnlessEvery) = {}

\* C11: an argument on which only required_unless / required_unless_one
\* was called, never required(true), and which is absent: with none of the
\* named arguments present the parse fails with MissingRequiredArgument naming
\* it; with at least one present it is not reported, and the parse succeeds
\* when nothing else is demanded.
C11_RequiredUnlessOne ==
    Parsed =>
        \A x \in DOMAIN app :
            (/\ UnlessCalls(x, UnlessAny) # {}
             /\ UnlessCalls(x, UnlessEvery) = {}
             /\ ~Supplied(x))
            => IF \E i \in UnlessCalls(x, UnlessAny) : \E y \in NamedBy(calls[i]) : Supplied(y)
               THEN /\ x \notin result.ids
                    /\ NothingElseDemanded(x) => result = Ok
               ELSE /\ result.kind = "MissingRequiredArgument"
                    /\ x \in result.ids

C11_Witness ==
    /\ Parsed
    /\ calls = <<Call("required_unless_one", "A", None, Others("A"))>>
    /\ input = <<Dashes \o Lc>>
    /\ result = Ok

\* C12: an argument on which only required_unless_all was called and which
\* is absent: while one of the named arguments is absent too the parse fails
\* with MissingRequiredArgument naming it; with every one present it is not
\* reported, and the parse succeeds when nothing else is demanded.
C12_RequiredUnlessAll ==
    Parsed =>
        \A x \in DOMAIN app :
            (/\ UnlessCalls(x, UnlessEvery) # {}
             /\ UnlessCalls(x, UnlessAny) = {}
             /\ ~Supplied(x))
            => IF \E i \in UnlessCalls(x, UnlessEvery) : \A y \in NamedBy(calls[i]) : Supplied(y)
               THEN /\ x \notin result.ids
                    /\ NothingElseDemanded(x) => result = Ok
               ELSE /\ result.kind = "MissingRequiredArgument"
                    /\ x \in result.ids

C12_Witness ==
    /\ Parsed
    /\ calls = <<Call("required_unless_all", "A", None, Others("A"))>>
    /\ input = <<Dashes \o Lc>>
    /\ result = Error("MissingRequiredArgument", {"A"})

\* The arguments x was told to require, by requires or requires_all.
Targets(x) ==
    UNION {IF calls[i].fn = "requires" THEN {calls[i].other}
           ELSE {calls[i].val[j] : j \in 1..Len(calls[i].val)} :
           i \in {k \in 1..Len(calls) :
                    calls[k].on = x /\ calls[k].fn \in {"requires", "requires_all"}}}

\* C13: the parse fails with MissingRequiredArgument naming exactly the
\* unused targets of the used arguments (one target of requires, each of
\* requires_all); when no used argument has an unused target it succeeds,
\* whatever else is or is not used.
C13_RequiresWhenUsed ==
    Parsed =>
        LET unmet == {y \in DOMAIN app :
                        ~Supplied(y) /\ \E x \in DOMAIN app : Supplied(x) /\ y \in Targets(x)}
        IN  IF unmet = {} THEN result = Ok
            ELSE result = Error("MissingRequiredArgument", unmet)

C13_Witness ==
    /\ Parsed
    /\ calls = <<Call("requires_all", "A", None, Others("A"))>>
    /\ input = <<Dashes \o La, Dashes \o Lb \o <<"=">> \o Vs>>
    /\ result = Error("MissingRequiredArgument", {"C"})

\* The unused arguments y that a used x requires by a call of one of the
\* kinds F with a value v that x was given.
GatedUnmet(F) ==
    {y \in DOMAIN app :
        /\ ~Supplied(y)
        /\ \E i \in 1..Len(calls) :
              /\ calls[i].fn \in F
              /\ calls[i].other = y
              /\ GivenWith(calls[i].on, calls[i].val[1])}

\* C14: the requirement of requires_if(val, B) and requires_ifs is gated on
\* the value: the parse fails with MissingRequiredArgument naming the unused
\* targets whose value was given, and succeeds when the argument was given
\* other values only.
C14_RequiresIfValueGated ==
    Parsed =>
        IF GatedUnmet({"requires_if", "requires_ifs"}) = {} THEN result = Ok
        ELSE result = Error("MissingRequiredArgument",
                            GatedUnmet({"requires_if", "requires_ifs"}))

\* The same of requires_ifs alone: this is what the code does guarantee.
C14_RequiresIfsGated ==
    (Parsed /\ \A i \in 1..Len(calls) : calls[i].fn = "requires_ifs") =>
        IF GatedUnmet({"requires_ifs"}) = {} THEN result = Ok
        ELSE result = Error("MissingRequiredArgument", GatedUnmet({"requires_ifs"}))

\* C15: an argument on which conflicts_with_all([B1..Bn]) was called, used
\* together with one of the Bi: the parse fails with ArgumentConflict.
C15_ConflictsWithAny ==
    Parsed =>
        \A i \in 1..Len(calls) :
            (/\ calls[i].fn = "conflicts_with_all"
             /\ Supplied(calls[i].on)
             /\ \E j \in 1..Len(calls[i].val) : Supplied(calls[i].val[j]))
            => result.kind = "ArgumentConflict"

\* The same when every Bi is used: this is what the code does guarantee.
C15_ConflictsWhenAllUsed ==
    Parsed =>
        \A i \in 1..Len(calls) :
            (/\ calls[i].fn = "conflicts_with_all"
             /\ Supplied(calls[i].on)
             /\ \A j \in 1..Len(calls[i].val) : Supplied(calls[i].val[j]))
            => result.kind = "ArgumentConflict"

DefaultCalled(x) == Called(Call("default_value", x, None, <<Vd>>))

TakesValueCalled(x) == Called(Call("takes_value", x, None, <<TRUE>>))

\* The last env call on x found the variable set.
EnvCaptured(x) ==
    \E i \in 1..Len(calls) :
        /\ calls[i].fn = "env" /\ calls[i].on = x /\ calls[i].val # <<>>
        /\ \A j \in (i + 1)..Len(calls) : ~(calls[j].fn = "env" /\ calls[j].on = x)

\* x has a long switch and the run names it once, with an inline value.
GivenInline(x, i) ==
    /\ TimesSupplied(input, x) = 1
    /\ Names(input[i], x)
    /\ Len(input[i]) > 4

\* What the result must hold for x, given once as `--x=v` or not at all,
\* with fallback value f.
FallsBackTo(x, f) ==
    /\ TimesSupplied(input, x) = 0 =>
           /\ is_present(ms, x)
           /\ values_of(ms, x) = <<f>>
           /\ occurrences_of(ms, x) = 0
    /\ \A i \in 1..Len(input) :
           GivenInline(x, i) =>
               /\ values_of(ms, x) = <<SubSeq(input[i], 5, Len(input[i]))>>
               /\ occurrences_of(ms, x) = 1

\* C17: an argument with a switch on which default_value("d") was called
\* (and no environment value captured): not supplied, it is present with the
\* value d and occurrence count 0; supplied once as `--k=v`, it has the value
\* v and occurrence count 1.
C17_DefaultValue ==
    Parsed =>
        \A x \in DOMAIN app :
            (app[x].key.long # <<>> /\ DefaultCalled(x) /\ ~EnvCaptured(x))
            => FallsBackTo(x, Vd)

\* The same with takes_value(true) called as well: this is what the code
\* does guarantee.
C17_DefaultWhenTakesValue ==
    Parsed =>
        \A x \in DOMAIN app :
            (/\ app[x].key.long # <<>> /\ DefaultCalled(x) /\ ~EnvCaptured(x)
             /\ TakesValueCalled(x))
            => FallsBackTo(x, Vd)

\* C19: an argument with a switch on which env was called while the
\* variable was set to e: not supplied, it is present with the value e and
\* occurrence count 0, a default_value notwithstanding; supplied once as
\* `--k=v`, it has the value v and occurrence count 1.
C19_EnvFallback ==
    Parsed =>
        \A x \in DOMAIN app :
            (app[x].key.long # <<>> /\ EnvCaptured(x)) => FallsBackTo(x, Ve)

\* The same with takes_value(true) called as well: this is what the code
\* does guarantee.
C19_EnvWhenTakesValue ==
    Parsed =>
        \A x \in DOMAIN app :
            (app[x].key.long # <<>> /\ EnvCaptured(x) /\ TakesValueCalled(x))
            => FallsBackTo(x, Ve)

RECURSIVE EntriesIn(_, _)
\* The (other, value, default) entries declared on x by the calls cs, in the
\* order of declaration.
EntriesIn(cs, x) ==
    IF cs = <<>> THEN <<>>
    ELSE (IF cs[1].on = x /\ cs[1].fn \in {"default_value_if", "default_value_ifs"}
          THEN cs[1].val ELSE <<>>) \o EntriesIn(Tail(cs), x)

\* The run satisfies the entry e: its argument was supplied, with the value
\* of the entry when it has one.
Satisfied(e) ==
    IF e[2] = <<>> THEN Supplied(e[1]) ELSE GivenWith(e[1], e[2][1])

\* C18: an argument not supplied takes the default of the first entry, in
\* the order of declaration, that the run satisfies, with occurrence count 0;
\* when none is satisfied it takes its default_value, and has no value and is
\* absent when there is none.
C18_FirstSatisfiedDefault ==
    Parsed =>
        \A x \in DOMAIN app :
            ~Supplied(x) =>
                LET es == EntriesIn(calls, x)
                    sat == {i \in 1..Len(es) : Satisfied(es[i])}
                IN  /\ occurrences_of(ms, x) = 0
                    /\ values_of(ms, x) =
                         IF sat # {}
                         THEN <<es[CHOOSE i \in sat : \A j \in sat : i <= j][3]>>
                         ELSE IF DefaultCalled(x) THEN <<Vd>> ELSE <<>>
                    /\ is_present(ms, x) <=> (sat # {} \/ DefaultCalled(x))

C18_Witness ==
    /\ Parsed
    /\ calls = <<Call("default_value_if", "C", None, <<<<"B", <<>>, Va>>>>),
                 Call("default_value_if", "C", None, <<<<"B", <<Vs>>, Vb>>>>)>>
    /\ input = <<Dashes \o Lb \o <<"=">> \o Vs>>
    /\ values_of(ms, "C") = <<Va>>
    /\ occurrences_of(ms, "C") = 0

\* The qty of the last max_values call on x, 0 when there is none.
MaxOf(x) ==
    LET at == {j \in 1..Len(calls) : calls[j].fn = "max_values" /\ calls[j].on = x}
    IN  IF at = {} THEN 0
        ELSE calls[CHOOSE j \in at : \A k \in at : k <= j].val[1]

RECURSIVE ValuesAfter(_)
\* The tokens without a leading hyphen that follow place i of the run, up to
\* the next token with one.
ValuesAfter(i) ==
    IF i + 1 > Len(input) \/ input[i + 1][1] = "-" THEN <<>>
    ELSE <<input[i + 1]>> \o ValuesAfter(i + 1)

\* C20: a value-taking option with max_values(m), given once as a bare
\* switch followed by n values: with n > m the parse fails with
\* TooManyValues; with 1 <= n <= m it succeeds and the option holds the n
\* values in order.
C20_MaxValues ==
    phase = "done" =>
        \A x \in DOMAIN app : \A i \in 1..Len(input) :
            (/\ app[x].key.long # <<>>
             /\ MaxOf(x) > 0
             /\ TimesSupplied(input, x) = 1
             /\ input[i] = Dashes \o app[x].key.long[1])
            => LET n == Len(ValuesAfter(i)) IN
               /\ n > MaxOf(x) => result.kind = "TooManyValues"
               /\ (n >= 1 /\ n <= MaxOf(x)) =>
                      /\ result = Ok
                      /\ values_of(ms, x) = ValuesAfter(i)
                      /\ occurrences_of(ms, x) = 1

C20_Witness ==
    /\ Parsed
    /\ MaxOf("K") = 2
    /\ input = <<Dashes \o Lk, Vb, Vb>>
    /\ values_of(ms, "K") = <<Vb, Vb>>
    /\ result = Ok

\* The qty of the last number_of_values call on x, 0 when there is none.
NumOf(x) ==
    LET at == {j \in 1..Len(calls) : calls[j].fn = "number_of_values" /\ calls[j].on = x}
    IN  IF at = {} THEN 0
        ELSE calls[CHOOSE j \in at : \A k \in at : k <= j].val[1]

\* How many values the token at place i, a switch of x, gives x: the tokens
\* without a leading hyphen that follow a bare switch; the pieces of an
\* inline value when value_delimiter(";") was called on x, else the one
\* inline value.
CountGiven(x, i) ==
    IF Len(input[i]) = 3 THEN Len(ValuesAfter(i))
    ELSE IF Called(Call("value_delimiter", x, None, <<";">>))
    THEN Len(Written(input[i]))
    ELSE 1

C21_Exact ==
    /\ Parsed
    /\ Len(calls) = 1
    /\ Called(Call("number_of_values", "K", None, <<2>>))
    /\ input = <<Dashes \o Lk, Vb, Vb>>
    /\ values_of(ms, "K") = <<Vb, Vb>>
    /\ result = Ok

\* The token before the last one is the bare switch of a value-taking
\* option, which the last token leaves without a value.
LeftWithoutValue ==
    /\ Len(input) >= 2
    /\ \E y \in DOMAIN app :
           /\ is_set(app[y], "TakesValue")
           /\ app[y].key.long # <<>>
           /\ input[Len(input) - 1] = Dashes \o app[y].key.long[1]

GroupRequiredCalled(n) == Called(Call("group_required", n, None, <<TRUE>>))

\* C23: a group is present exactly when one of its members was used on the
\* command line; a group on which required(true) was called ends the parse
\* with MissingRequiredArgument naming it when none of its members was used,
\* and is not reported missing otherwise.
C23_GroupPresentAndRequired ==
    Parsed =>
        \A n \in DOMAIN groups :
            /\ Used(app, groups, ms, n) <=> MembersSupplied(n) # {}
            /\ (GroupRequiredCalled(n) /\ MembersSupplied(n) = {}) =>
                   result = Error("MissingRequiredArgument", {n})
            /\ MembersSupplied(n) # {} => ~Missing(n)

\* The required group of -f and -c, and only -d on the command line.
C23_Witness ==
    /\ Parsed
    /\ Len(calls) = 1
    /\ GroupRequiredCalled("G")
    /\ input = <<<<"-", "d">>>>
    /\ ~Used(app, groups, ms, "G")
    /\ result = Error("MissingRequiredArgument", {"G"})

\* -d is made a member of the required group, and is the one used.
C23_MemberAdded ==
    /\ Parsed
    /\ GroupRequiredCalled("G")
    /\ Called(Call("group_arg", "G", "D", <<>>))
    /\ input = <<<<"-", "d">>>>
    /\ Used(app, groups, ms, "G")
    /\ result = Ok

\* The arguments group n was told to require, by requires or requires_all.
GroupTargets(n) ==
    UNION {IF calls[i].fn = "group_requires" THEN {calls[i].other}
           ELSE {calls[i].val[j] : j \in 1..Len(calls[i].val)} :
           i \in {k \in 1..Len(calls) :
                    /\ calls[k].on = n
                    /\ calls[k].fn \in {"group_requires", "group_requires_all"}}}

\* The arguments group n was told to conflict with.
GroupFoes(n) ==
    {calls[i].other :
        i \in {k \in 1..Len(calls) :
                 calls[k].on = n /\ calls[k].fn = "group_conflicts_with"}}

\* C24: the rules of a group fire as soon as one member is used.  With no
\* member used the parse succeeds; with two members of the group (which is
\* not multiple) it is an ArgumentConflict naming them; else with a member
\* and an argument the group conflicts with it is an ArgumentConflict naming
\* those arguments; else with a member and a required argument missing it is
\* a MissingRequiredArgument naming every missing one; else it succeeds.
C24_GroupRulesFire ==
    Parsed =>
        \A n \in DOMAIN groups :
            LET used == MembersSupplied(n)
                foes == {y \in GroupFoes(n) : TimesSupplied(input, y) > 0}
                unmet == {y \in GroupTargets(n) : TimesSupplied(input, y) = 0}
            IN  result =
                  IF used = {} THEN Ok
                  ELSE IF Cardinality(used) >= 2 THEN Error("ArgumentConflict", used)
                  ELSE IF foes # {} THEN Error("ArgumentConflict", foes)
                  ELSE IF unmet # {} THEN Error("MissingRequiredArgument", unmet)
                  ELSE Ok

\* The documentation test of requires_all: -c -d, with -v missing.
C24_Witness ==
    /\ Parsed
    /\ Len(calls) = 1
    /\ calls[1].fn = "group_requires_all"
    /\ input = <<<<"-", "c">>, <<"-", "d">>>>
    /\ result = Error("MissingRequiredArgument", {"V"})

\* The documentation test of conflicts_with: -c -d.
C24_Conflict ==
    /\ Parsed
    /\ Called(Call("group_conflicts_with", "G", "D", <<>>))
    /\ Called(Call("group_requires", "G", "V", <<>>))
    /\ input = <<<<"-", "c">>, <<"-", "d">>>>
    /\ result = Error("ArgumentConflict", {"D"})

\* No member used: neither rule fires.
C24_NoMember ==
    /\ Parsed
    /\ Called(Call("group_conflicts_with", "G", "D", <<>>))
    /\ Called(Call("group_requires", "G", "V", <<>>))
    /\ input = <<<<"-", "d">>>>
    /\ result = Ok

\* The required arguments and groups the run leaves unused.
RequiredUnmet ==
    {x \in DOMAIN app : RequiredMarked(x) /\ TimesSupplied(input, x) = 0}
    \cup {n \in DOMAIN groups : GroupRequiredCalled(n) /\ MembersSupplied(n) = {}}

\* C25: a parse that ends with required arguments or groups unused fails
\* with one MissingRequiredArgument that names every one of them; with none
\* unused it does not fail for that reason.
C25_AllUnmetReported ==
    Parsed =>
        IF RequiredUnmet # {}
        THEN result = Error("MissingRequiredArgument", RequiredUnmet)
        ELSE result.kind # "MissingRequiredArgument"

\* A required argument and a required group, both unused.
C25_Witness ==
    /\ Parsed
    /\ RequiredMarked("D")
    /\ GroupRequiredCalled("G")
    /\ input = <<<<"-", "v">>>>
    /\ result = Error("MissingRequiredArgument", {"D", "G"})

\* The last global(g) call on x had g = TRUE.
GlobalMarked(x) ==
    \E i \in 1..Len(calls) :
        /\ calls[i].fn = "global" /\ calls[i].on = x /\ calls[i].val = <<TRUE>>
        /\ \A j \in (i + 1)..Len(calls) : ~(calls[j].fn = "global" /\ calls[j].on = x)

\* The arguments subcommand n answers to, read from the calls: its own and
\* the ones of the parent that were made global.
Scope(n) ==
    LET G == {x \in DOMAIN app : GlobalMarked(x)}
    IN  [x \in DOMAIN SubCommands[n].args \cup G |->
            IF x \in G THEN app[x] ELSE SubCommands[n].args[x]]

RECURSIVE Replay(_, _, _)
\* The state a fresh engine reaches from st on the tokens toks alone, with
\* the arguments a and no subcommand.
Replay(a, st, toks) ==
    IF toks = <<>> THEN st ELSE Replay(a, Step(a, st, Head(toks)), Tail(toks))

FirstEq(tok) ==
    IF \E i \in 1..Len(tok) : tok[i] = "="
    THEN CHOOSE i \in 1..Len(tok) : tok[i] = "=" /\ \A j \in 1..(i - 1) : tok[j] # "="
    ELSE 0

\* The text without its leading bytes b.
Stripped(t, b) ==
    IF \A i \in 1..Len(t) : t[i] = b THEN <<>>
    ELSE SubSeq(t, CHOOSE i \in 1..Len(t) : t[i] # b /\ \A j \in 1..(i - 1) : t[j] = b,
                Len(t))

\* C27: the RawLong of a long token: with an `=`, the key is what precedes
\* the first `=`, leading hyphens stripped, and the inline value is all that
\* follows that first `=`; with none, there is no inline value and the key is
\* the token, leading hyphens stripped.
C27_SplitsAtFirstEq ==
    phase = "done" =>
        LET tok == input[1]
            i == FirstEq(tok)
        IN  IF i = 0
            THEN /\ RawLong_key(result) = Stripped(tok, "-")
                 /\ result.value = <<>>
            ELSE /\ RawLong_key(result) = Stripped(SubSeq(tok, 1, i - 1), "-")
                 /\ result.value = <<SubSeq(tok, i + 1, Len(tok))>>

\* What the code does guarantee: the inline value is what follows the first
\* `=` without its own leading `=` bytes.
C27_ValueTrimmed ==
    phase = "done" =>
        LET tok == input[1]
            i == FirstEq(tok)
        IN  IF i = 0
            THEN /\ RawLong_key(result) = Stripped(tok, "-")
                 /\ result.value = <<>>
            ELSE /\ RawLong_key(result) = Stripped(SubSeq(tok, 1, i - 1), "-")
                 /\ result.value = <<Stripped(SubSeq(tok, i + 1, Len(tok)), "=")>>

\* short, long or index was called on x.
KeyCalled(x, fn) == \E i \in 1..Len(calls) : calls[i].fn = fn /\ calls[i].on = x

\* What the calls make of x: positional with an index or with no switch,
\* else an option when it takes a value, else a flag.
KindOf(x) ==
    IF KeyCalled(x, "index") \/ ~(KeyCalled(x, "short") \/ KeyCalled(x, "long"))
    THEN "positional"
    ELSE IF TakesValueCalled(x) THEN "option"
    ELSE "flag"

\* C28: after any builder calls Arg::is_flag, is_option and is_positional
\* single out the one kind of the argument, and Key::is_positional agrees
\* with Arg::is_positional.
C28_ExactlyOneKind ==
    \A x \in DOMAIN app :
        /\ Arg_is_flag(app[x]) <=> KindOf(x) = "flag"
        /\ Arg_is_option(app[x]) <=> KindOf(x) = "option"
        /\ Arg_is_positional(app[x]) <=> KindOf(x) = "positional"
        /\ Key_is_positional(app[x].key) <=> KindOf(x) = "positional"

\* What the code does guarantee: the Key tells the positionals, and with
\* the value never set Arg::is_flag is has_switch and the other two are
\* false.
C28_KeyTellsPositional ==
    \A x \in DOMAIN app :
        /\ Key_is_positional(app[x].key) <=> KindOf(x) = "positional"
        /\ Arg_is_flag(app[x]) <=> (KeyCalled(x, "short") \/ KeyCalled(x, "long"))
        /\ ~Arg_is_option(app[x])
        /\ ~Arg_is_positional(app[x])

\* ------------------------------------------------------------------ C29

RECURSIVE NamesDeclaredUpTo(_, _)
\* How many value names the first i builder calls declared for x.
NamesDeclaredUpTo(x, i) ==
    IF i = 0 THEN 0
    ELSE NamesDeclaredUpTo(x, i - 1)
         + (IF calls[i].on # x THEN 0
            ELSE IF calls[i].fn = "value_name" THEN 1
            ELSE IF calls[i].fn = "value_names" THEN Len(calls[i].val)
            ELSE 0)

NamesDeclared(x) == NamesDeclaredUpTo(x, Len(calls))

C29_NamesReplaceCount ==
    /\ phase = "parse"
    /\ Called(Call("number_of_values", "P", None, <<3>>))
    /\ NamesDeclared("P") = 2
    /\ app["P"].num_vals = <<2>>

\* A single name, or names on an argument without TakesValue, imply nothing:
\* num_vals is what number_of_values left.
C29_NothingImpliedOtherwise ==
    phase # "build" =>
        \A x \in DOMAIN app :
            (~is_set(app[x], "TakesValue") \/ NamesDeclared(x) <= 1)
                => app[x].num_vals =
                       (IF Called(Call("number_of_values", x, None, <<3>>))
                        THEN <<3>> ELSE <<>>)

\* ------------------------------------------------------------------ C30

\* The last builder call on x was require_delimiter(true).
RequireDelimiterLast(x) ==
    \E i \in 1..Len(calls) :
        /\ calls[i].on = x
        /\ calls[i].fn = "require_delimiter"
        /\ calls[i].val = <<TRUE>>
        /\ \A j \in (i + 1)..Len(calls) : calls[j].on # x

\* C30: an argument whose last builder call was require_delimiter(true) has
\* RequireDelimiter, UseValueDelimiter and TakesValue all set, whatever was
\* called on it before.
C30_RequireDelimiterImpliesAll ==
    \A x \in DOMAIN app :
        RequireDelimiterLast(x) =>
            /\ is_set(app[x], "RequireDelimiter")
            /\ is_set(app[x], "UseValueDelimiter")
            /\ is_set(app[x], "TakesValue")

\* What require_delimiter(true) does leave: the two delimiter settings set,
\* TakesValue as takes_value left it, and, once built, the declared delimiter
\* or the comma.
C30_DelimiterSettingsOnly ==
    \A x \in DOMAIN app :
        RequireDelimiterLast(x) =>
            /\ is_set(app[x], "RequireDelimiter")
            /\ is_set(app[x], "UseValueDelimiter")
            /\ ~is_set(app[x], "ValueDelimiterNotSet")
            /\ is_set(app[x], "TakesValue") <=> TakesValueCalled(x)
            /\ phase # "build" =>
                   app[x].val_delim =
                       (IF Called(Call("value_delimiter", x, None, <<";">>))
                        THEN ";" ELSE ",")

=============================================================================
